---- MODULE Spec2Model ----
(***************************************************************************)
(* Layer 1 of diode_bridge_v2: two paired Messengers that synchronise      *)
(* their outbox / inbox over a lossy, duplicating, reordering file         *)
(* transport, and the controller step that feeds decoded packet files to   *)
(* Messenger.packet_receive.                                               *)
(***************************************************************************)
EXTENDS Integers, Sequences, FiniteSets, TLC

VARIABLES
    messengers,   \* uuid -> Messenger dataclass (layer_1.py:52-70)
    packets,      \* uuid -> sequence of the Packets create_packet returned
    now,          \* the UTC clock in whole seconds (get_utc_timestamp)
    threads,      \* thread -> position and locals of its append_outbox_data call
    _outbox_lock, \* Messenger._outbox_lock: the thread that holds it
    calls,        \* history: uuid -> what its callers did so far
    folder,       \* path -> the file at that path: size sentinel and body
    servers       \* uuid -> Server: _current_files and the BinaryWriter f

vars == <<messengers, packets, now, threads, _outbox_lock, calls, folder, servers>>

---------------------------------------------------------------------------
(* Bounds of the model *)

MaxOutbox == 2
MaxPackets == 3
MaxTime == 1

---------------------------------------------------------------------------
(* Program constants *)

MULTIPART_LIMIT_SIZE_BYTES == 20
PACKET_LIMIT_SIZE_BYTES == 200
NACK_TRANSMIT_COUNT == 5
RETRANSMISSION_TIMEOUT == 5
TOKEN_LEN == 44
HEADER_DIGEST_SIZE == 8
MESSAGE_DIGEST_SIZE == 16
MESSAGE_HEADER_DIGEST_SIZE == 8
PACKET_HEADER_SIZE == 16 + 16 + 4 + 4 + 4 + 4 + TOKEN_LEN + HEADER_DIGEST_SIZE
MESSAGE_HEADER_SIZE == 4 + 4 + 4 + 2 + MESSAGE_DIGEST_SIZE + MESSAGE_HEADER_DIGEST_SIZE

\* Optional[int] / Optional[datetime] fields hold None until they are set
None == -1

\* ContentType
ContentType_STRING == 1
ContentType_BINARY == 2
ContentType_JSON_DICT == 3
ContentType_MULTIPART_FRAGMENT == 4

\* the two paired uuids
UUIDS == {"A", "B"}

Other(u) == IF u = "A" THEN "B" ELSE "A"

---------------------------------------------------------------------------
(* Small helpers on sequences and sets *)

Range(s) == {s[i] : i \in DOMAIN s}

Min(S) == CHOOSE x \in S : \A y \in S : x <= y

RECURSIVE SortedSeq(_)
SortedSeq(S) == IF S = {} THEN <<>> ELSE <<Min(S)>> \o SortedSeq(S \ {Min(S)})

\* s[lo+1 .. ] in 1-based terms: the python slice s[lo:]
SliceFrom(s, lo) == IF lo >= Len(s) THEN <<>> ELSE SubSeq(s, lo + 1, Len(s))

---------------------------------------------------------------------------
(* Messages, items and the Messenger dataclass *)

\* Optional[Message] = None
NoMessage ==
    [message_id |-> 0, message_prev |-> 0, content_type |-> 0,
     binary_data |-> <<>>, previous_message |-> 0]

\* Message.size_bytes
MessageSize(msg) == MESSAGE_HEADER_SIZE + Len(msg.binary_data)

OutboxItem(msg) ==
    [message |-> msg, packet_timestamp |-> None, packet_id |-> None, acked |-> None]

InboxItem ==
    [message |-> NoMessage, packet_timestamp |-> None, acked |-> None, ack_acked |-> None]

Messenger(self_uuid, other_uuid) ==
    [self_uuid |-> self_uuid,
     other_uuid |-> other_uuid,
     outbox |-> <<>>,
     inbox |-> <<>>,
     _inbox_unlinked_previous_messages |-> {},
     _cached_clock_self |-> 0,
     _cached_clock_other |-> 0,
     _cached_other_clock_self |-> 0,
     nack_ids |-> {},
     _sent_nack_ids |-> [x \in {} |-> 0],
     num_sent_packets |-> 0]

\* Control is None on a packet whose control block failed to parse
NoControl ==
    [sender_clock_sender |-> None, sender_clock_recipient |-> None,
     sender_clock_out_of_order |-> <<>>, nack_ids |-> <<>>,
     recipient_clock_sender |-> None]

\* Control.size_bytes
ControlSize(c) ==
    4 * (Len(c.sender_clock_out_of_order) + Len(c.nack_ids) + 5) + HEADER_DIGEST_SIZE

---------------------------------------------------------------------------
(* Clock properties.  Each is the value the property returns; reading the   *)
(* property also stores that value in the scan cursor (Touch...).           *)

clock_self(self) == Len(self.outbox)

\* ScanInbox without the scan: the cursor as it stands
ScanInbox_CursorOnly(inbox, i) == IF i >= Len(inbox) THEN Len(inbox) ELSE i

RECURSIVE ScanInbox(_, _)
ScanInbox(inbox, i) ==
    IF i >= Len(inbox) THEN Len(inbox)
    ELSE IF inbox[i + 1].message # NoMessage THEN ScanInbox(inbox, i + 1)
    ELSE i

\* clock_other that counts every slot the inbox was grown to
clock_other_Grown(self) == Len(self.inbox)

clock_other(self) == ScanInbox(self.inbox, self._cached_clock_other)

\* ScanOutbox without the scan: the cursor as it stands
ScanOutbox_CursorOnly(outbox, i) == IF i >= Len(outbox) THEN Len(outbox) ELSE i

RECURSIVE ScanOutbox(_, _)
ScanOutbox(outbox, i) ==
    IF i >= Len(outbox) THEN Len(outbox)
    ELSE IF outbox[i + 1].acked # None THEN ScanOutbox(outbox, i + 1)
    ELSE i

other_clock_self(self) == ScanOutbox(self.outbox, self._cached_other_clock_self)

\* other_clock_other counting only what the peer is known to know of
other_clock_other_AckAcked(self) ==
    Cardinality({i \in DOMAIN self.inbox : self.inbox[i].ack_acked # None})

other_clock_other(self) == Len(self.inbox)

TouchClockSelf(self) == [self EXCEPT !._cached_clock_self = clock_self(self)]

TouchClockOther(self) == [self EXCEPT !._cached_clock_other = clock_other(self)]

TouchOtherClockSelf(self) ==
    [self EXCEPT !._cached_other_clock_self = other_clock_self(self)]

clock_out_of_order(self) ==
    LET idx == SortedSeq({i \in (clock_other(self) + 1)..Len(self.inbox) :
                              self.inbox[i].message # NoMessage})
    IN  [k \in DOMAIN idx |-> self.inbox[idx[k]].message.message_id]

other_clock_out_of_order(self) ==
    LET idx == SortedSeq({i \in (other_clock_self(self) + 1)..Len(self.outbox) :
                              self.outbox[i].acked # None})
    IN  [k \in DOMAIN idx |-> self.outbox[idx[k]].message.message_id]

\* the value is_synchronized returns (its two assertions hold whenever the
\* two comparisons do)
is_synchronized(self) ==
    /\ clock_self(self) = other_clock_self(self)
    /\ clock_other(self) = other_clock_other(self)

---------------------------------------------------------------------------
(* Packets *)

PacketHeader(sender_uuid, recipient_uuid, packet_id, num_messages, packet_timestamp) ==
    [sender_uuid |-> sender_uuid, recipient_uuid |-> recipient_uuid,
     packet_id |-> packet_id, num_messages |-> num_messages,
     packet_timestamp |-> packet_timestamp]

Packet(header, control, messages) ==
    [header |-> header, control |-> control, messages |-> messages]

RECURSIVE SumSizes(_)
SumSizes(messages) ==
    IF messages = <<>> THEN 0 ELSE MessageSize(Head(messages)) + SumSizes(Tail(messages))

\* Packet.size_bytes
PacketSize(packet) ==
    PACKET_HEADER_SIZE + ControlSize(packet.control) + SumSizes(packet.messages)

NoPacket == Packet(PacketHeader("A", "A", 0, 0, None), NoControl, <<>>)

\* Entries of nack_ids: the controller adds the filename's packet id, a str
\* (controller.py:48,84), other callers add header.packet_id, an int.
IntId(v) == [t |-> "int", v |-> v]

StrId(v) == [t |-> "str", v |-> v]

\* sorted(self.nack_ids) raises TypeError on a set that mixes str and int
NackSortable(ids) == \A x, y \in ids : x.t = y.t

\* Control.nack_ids: List[conint(ge=1)] coerces numeric strings and refuses
\* values below 1
NackValid(ids) == \A x \in ids : x.v >= 1

---------------------------------------------------------------------------
(* Messenger.create_packet *)

\* SelectMessage without the "not yet time to retransmit" test
SelectMessage_AnyAge(item, total_size_bytes, retransmission_timeout, current_timestamp) ==
    /\ item.acked = None
    /\ ~(total_size_bytes + MessageSize(item.message) > PACKET_LIMIT_SIZE_BYTES)

\* SelectMessage that also skips a message whose timeout ends just now
SelectMessage_Strict(item, total_size_bytes, retransmission_timeout, current_timestamp) ==
    /\ item.acked = None
    /\ ~(/\ item.packet_timestamp # None
         /\ item.packet_timestamp + retransmission_timeout >= current_timestamp)
    /\ ~(total_size_bytes + MessageSize(item.message) > PACKET_LIMIT_SIZE_BYTES)

\* the skip conditions of the outbox scan; the running total is never
\* increased, so each message is weighed alone against the cap
SelectMessage(item, total_size_bytes, retransmission_timeout, current_timestamp) ==
    /\ item.acked = None
    /\ ~(/\ item.packet_timestamp # None
         /\ item.packet_timestamp + retransmission_timeout > current_timestamp)
    /\ ~(total_size_bytes + MessageSize(item.message) > PACKET_LIMIT_SIZE_BYTES)

\* AgeNacks without the pruning: every counted id is re-added
AgeNacks_KeepAll(nack_ids, sent) ==
    [x \in (DOMAIN sent) \cup nack_ids |->
        (IF x \in DOMAIN sent THEN sent[x] ELSE 0) + (IF x \in nack_ids THEN 1 ELSE 0)]

\* AgeNacks that counts an id of nack_ids from 1, whatever its old count
AgeNacks_Restart(nack_ids, sent) ==
    LET bumped == [x \in (DOMAIN sent) \cup nack_ids |->
                      IF x \in nack_ids THEN 1 ELSE sent[x]]
        keep == {x \in DOMAIN bumped : ~(bumped[x] > NACK_TRANSMIT_COUNT)}
    IN  [x \in keep |-> bumped[x]]

\* housekeeping of nacks: the Counter after the bump and the pruning
AgeNacks(nack_ids, sent) ==
    LET bumped == [x \in (DOMAIN sent) \cup nack_ids |->
                      (IF x \in DOMAIN sent THEN sent[x] ELSE 0)
                      + (IF x \in nack_ids THEN 1 ELSE 0)]
        keep == {x \in DOMAIN bumped : ~(bumped[x] > NACK_TRANSMIT_COUNT)}
    IN  [x \in keep |-> bumped[x]]

\* create_packet numbering the packet before num_sent_packets is incremented
create_packet_StaleId(self, current_timestamp, retransmission_timeout) ==
    LET s1 == TouchOtherClockSelf(TouchClockOther(TouchClockSelf(self)))
        control ==
            [sender_clock_sender |-> clock_self(s1),
             sender_clock_recipient |-> clock_other(s1),
             sender_clock_out_of_order |-> clock_out_of_order(s1),
             nack_ids |-> SortedSeq({x.v : x \in s1.nack_ids}),
             recipient_clock_sender |-> other_clock_self(s1)]
        total_size_bytes == PACKET_HEADER_SIZE + ControlSize(control)
        idx == SortedSeq({i \in (other_clock_self(s1) + 1)..Len(s1.outbox) :
                            SelectMessage(s1.outbox[i], total_size_bytes,
                                          retransmission_timeout, current_timestamp)})
        messages == [k \in DOMAIN idx |-> s1.outbox[idx[k]].message]
        sent == AgeNacks(s1.nack_ids, s1._sent_nack_ids)
        s2 == [s1 EXCEPT !._sent_nack_ids = sent,
                         !.nack_ids = DOMAIN sent,
                         !.num_sent_packets = @ + 1]
    IN  IF \/ ~NackSortable(s1.nack_ids)
           \/ ~NackValid(s1.nack_ids)
           \/ ~(total_size_bytes < PACKET_LIMIT_SIZE_BYTES)
        THEN [raised |-> TRUE, self |-> s1, packet |-> NoPacket]
        ELSE [raised |-> FALSE, self |-> s2,
              packet |-> Packet(PacketHeader(self.self_uuid, self.other_uuid,
                                             s1.num_sent_packets, Len(messages),
                                             current_timestamp),
                                control, messages)]

create_packet(self, current_timestamp, retransmission_timeout) ==
    LET s1 == TouchOtherClockSelf(TouchClockOther(TouchClockSelf(self)))
        control ==
            [sender_clock_sender |-> clock_self(s1),
             sender_clock_recipient |-> clock_other(s1),
             sender_clock_out_of_order |-> clock_out_of_order(s1),
             nack_ids |-> SortedSeq({x.v : x \in s1.nack_ids}),
             recipient_clock_sender |-> other_clock_self(s1)]
        total_size_bytes == PACKET_HEADER_SIZE + ControlSize(control)
        idx == SortedSeq({i \in (other_clock_self(s1) + 1)..Len(s1.outbox) :
                            SelectMessage(s1.outbox[i], total_size_bytes,
                                          retransmission_timeout, current_timestamp)})
        messages == [k \in DOMAIN idx |-> s1.outbox[idx[k]].message]
        sent == AgeNacks(s1.nack_ids, s1._sent_nack_ids)
        s2 == [s1 EXCEPT !._sent_nack_ids = sent,
                         !.nack_ids = DOMAIN sent,
                         !.num_sent_packets = @ + 1]
    IN  IF \/ ~NackSortable(s1.nack_ids)
           \/ ~NackValid(s1.nack_ids)
           \/ ~(total_size_bytes < PACKET_LIMIT_SIZE_BYTES)
        THEN [raised |-> TRUE, self |-> s1, packet |-> NoPacket]
        ELSE [raised |-> FALSE, self |-> s2,
              packet |-> Packet(PacketHeader(self.self_uuid, self.other_uuid,
                                             s2.num_sent_packets, Len(messages),
                                             current_timestamp),
                                control, messages)]

\* create_packet up to the size assertion: the Control block, built from the
\* clock properties, and total_size_bytes
create_packet_control(self) ==
    LET s1 == TouchOtherClockSelf(TouchClockOther(TouchClockSelf(self)))
        control ==
            [sender_clock_sender |-> clock_self(s1),
             sender_clock_recipient |-> clock_other(s1),
             sender_clock_out_of_order |-> clock_out_of_order(s1),
             nack_ids |-> SortedSeq({x.v : x \in s1.nack_ids}),
             recipient_clock_sender |-> other_clock_self(s1)]
        total_size_bytes == PACKET_HEADER_SIZE + ControlSize(control)
    IN  [raised |-> \/ ~NackSortable(s1.nack_ids)
                    \/ ~NackValid(s1.nack_ids)
                    \/ ~(total_size_bytes < PACKET_LIMIT_SIZE_BYTES),
         self |-> s1, control |-> control, total_size_bytes |-> total_size_bytes]

\* create_packet from "get messages to send" on: the scan of the outbox as
\* it is now, the housekeeping of nacks and the Packet around control
create_packet_scan(self, control, total_size_bytes, current_timestamp, retransmission_timeout) ==
    LET s1 == TouchOtherClockSelf(self)
        idx == SortedSeq({i \in (other_clock_self(s1) + 1)..Len(s1.outbox) :
                            SelectMessage(s1.outbox[i], total_size_bytes,
                                          retransmission_timeout, current_timestamp)})
        messages == [k \in DOMAIN idx |-> s1.outbox[idx[k]].message]
        sent == AgeNacks(s1.nack_ids, s1._sent_nack_ids)
        s2 == [s1 EXCEPT !._sent_nack_ids = sent,
                         !.nack_ids = DOMAIN sent,
                         !.num_sent_packets = @ + 1]
    IN  [self |-> s2,
         packet |-> Packet(PacketHeader(self.self_uuid, self.other_uuid,
                                        s2.num_sent_packets, Len(messages),
                                        current_timestamp),
                           control, messages)]

---------------------------------------------------------------------------
(* Messenger.packet_send *)

\* first-writer-wins ack of the inbox items at the 1-based indices idx
AckInbox(inbox, idx, packet_timestamp) ==
    [i \in DOMAIN inbox |->
        IF i \in idx /\ inbox[i].acked = None
        THEN [inbox[i] EXCEPT !.acked = packet_timestamp]
        ELSE inbox[i]]

\* MarkSent without the "if ...acked: continue" test
MarkSent_Acked(outbox, packet) ==
    LET ids == {packet.messages[k].message_id : k \in DOMAIN packet.messages}
    IN  [i \in DOMAIN outbox |->
            IF i \in ids
            THEN [outbox[i] EXCEPT !.packet_timestamp = packet.header.packet_timestamp,
                                   !.packet_id = packet.header.packet_id]
            ELSE outbox[i]]

\* the send bookkeeping of the outbox items whose message is in the packet
MarkSent(outbox, packet) ==
    LET ids == {packet.messages[k].message_id : k \in DOMAIN packet.messages}
    IN  [i \in DOMAIN outbox |->
            IF i \in ids /\ outbox[i].acked = None
            THEN [outbox[i] EXCEPT !.packet_timestamp = packet.header.packet_timestamp,
                                   !.packet_id = packet.header.packet_id]
            ELSE outbox[i]]

\* packet_send without the test of recipient_uuid
packet_send_NoRecipientTest(self, packet) ==
    IF packet.header.sender_uuid # self.self_uuid
    THEN [raised |-> TRUE, self |-> self]
    ELSE
    LET lo == clock_other(self)
        hi == packet.control.sender_clock_recipient
        idx == ((lo + 1)..hi) \cup Range(packet.control.sender_clock_out_of_order)
    IN  [raised |-> FALSE,
         self |-> [self EXCEPT
                     !.inbox = AckInbox(self.inbox, idx, packet.header.packet_timestamp),
                     !._cached_clock_other = hi,
                     !.outbox = MarkSent(self.outbox, packet)]]

packet_send(self, packet) ==
    IF \/ packet.header.sender_uuid # self.self_uuid
       \/ packet.header.recipient_uuid # self.other_uuid
    THEN [raised |-> TRUE, self |-> self]
    ELSE
    LET lo == clock_other(self)
        hi == packet.control.sender_clock_recipient
        idx == ((lo + 1)..hi) \cup Range(packet.control.sender_clock_out_of_order)
    IN  [raised |-> FALSE,
         self |-> [self EXCEPT
                     !.inbox = AckInbox(self.inbox, idx, packet.header.packet_timestamp),
                     !._cached_clock_other = hi,
                     !.outbox = MarkSent(self.outbox, packet)]]

---------------------------------------------------------------------------
(* Messenger.packet_receive *)

\* GrowInbox appending sender_clock_sender items whatever the length
GrowInbox_Append(inbox, sender_clock_sender) ==
    inbox \o [i \in 1..sender_clock_sender |-> InboxItem]

\* while self.other_clock_other < sender_clock_sender: inbox.append(InboxItem())
GrowInbox(inbox, sender_clock_sender) ==
    IF Len(inbox) >= sender_clock_sender THEN inbox
    ELSE inbox \o [i \in 1..(sender_clock_sender - Len(inbox)) |-> InboxItem]

\* the ack loops without the assignment of acked
AckOutbox_None(outbox, idx, packet_timestamp) == outbox

\* first-writer-wins ack of the outbox items at the 1-based indices idx
AckOutbox(outbox, idx, packet_timestamp) ==
    [i \in DOMAIN outbox |->
        IF i \in idx /\ outbox[i].acked = None
        THEN [outbox[i] EXCEPT !.acked = packet_timestamp]
        ELSE outbox[i]]

\* AckAckInbox over range(recipient_clock_sender - 1)
AckAckInbox_OffByOne(inbox, recipient_clock_sender, packet_timestamp) ==
    [i \in DOMAIN inbox |->
        IF i < recipient_clock_sender /\ inbox[i].ack_acked = None
        THEN [inbox[i] EXCEPT !.ack_acked = packet_timestamp]
        ELSE inbox[i]]

\* for i in range(recipient_clock_sender): first-writer-wins ack_acked
AckAckInbox(inbox, recipient_clock_sender, packet_timestamp) ==
    [i \in DOMAIN inbox |->
        IF i <= recipient_clock_sender /\ inbox[i].ack_acked = None
        THEN [inbox[i] EXCEPT !.ack_acked = packet_timestamp]
        ELSE inbox[i]]

\* the outbox slice the NACK loop walks: self.outbox[self.clock_other:]
NackSliceStart(self) == clock_other(self)

\* ApplyNacks resetting the whole slot of a NACKed packet id, acked included
ApplyNacks_ResetSlot(outbox, start, nack_ids) ==
    [i \in DOMAIN outbox |->
        IF i > start /\ outbox[i].packet_id \in nack_ids
        THEN [outbox[i] EXCEPT !.packet_id = None, !.packet_timestamp = None,
                               !.acked = None]
        ELSE outbox[i]]

\* update nack to pretend the messages are unsent
ApplyNacks(outbox, start, nack_ids) ==
    [i \in DOMAIN outbox |->
        IF /\ i > start
           /\ outbox[i].acked = None
           /\ outbox[i].packet_id \in nack_ids
        THEN [outbox[i] EXCEPT !.packet_id = None, !.packet_timestamp = None]
        ELSE outbox[i]]

\* Stores without the "already received" test: every message is stored
Stores_Overwrite(inbox, messages, k) ==
    \A j \in (k + 1)..Len(messages) : messages[j].message_id # messages[k].message_id

\* whether the message loop stores message k of the packet: its slot is
\* empty and no earlier message of the packet filled it
Stores(inbox, messages, k) ==
    /\ inbox[messages[k].message_id].message = NoMessage
    /\ \A j \in 1..(k - 1) : messages[j].message_id # messages[k].message_id

\* StoreMessages that fills the inbox from its end: message_id 1 goes to the
\* last slot
StoreMessages_FromEnd(inbox, messages, packet_timestamp) ==
    [i \in DOMAIN inbox |->
        IF \E k \in DOMAIN messages :
              /\ messages[k].message_id = Len(inbox) + 1 - i
              /\ Stores(inbox, messages, k)
        THEN LET k == CHOOSE k \in DOMAIN messages :
                        /\ messages[k].message_id = Len(inbox) + 1 - i
                        /\ Stores(inbox, messages, k)
             IN  [inbox[i] EXCEPT !.message = messages[k],
                                  !.packet_timestamp = packet_timestamp]
        ELSE inbox[i]]

\* add received messages to inbox
StoreMessages(inbox, messages, packet_timestamp) ==
    [i \in DOMAIN inbox |->
        IF \E k \in DOMAIN messages : messages[k].message_id = i /\ Stores(inbox, messages, k)
        THEN LET k == CHOOSE k \in DOMAIN messages :
                        messages[k].message_id = i /\ Stores(inbox, messages, k)
             IN  [inbox[i] EXCEPT !.message = messages[k],
                                  !.packet_timestamp = packet_timestamp]
        ELSE inbox[i]]

\* the entries the message loop adds to _inbox_unlinked_previous_messages
NewUnlinked(inbox, messages) ==
    {<<messages[k].message_id, messages[k].message_prev>> :
        k \in {j \in DOMAIN messages :
                 Stores(inbox, messages, j) /\ messages[j].message_prev > 0}}

\* the link loop without the test that the previous message is stored
Linkable_All(inbox, unlinked) == unlinked

\* link previous messages: the entries whose previous message is stored
Linkable(inbox, unlinked) == {e \in unlinked : inbox[e[2]].message # NoMessage}

\* LinkMessages that sets no previous_message
LinkMessages_None(inbox, unlinked) == inbox

LinkMessages(inbox, unlinked) ==
    [i \in DOMAIN inbox |->
        IF \E e \in Linkable(inbox, unlinked) : e[1] = i
        THEN LET e == CHOOSE e \in Linkable(inbox, unlinked) : e[1] = i
             IN  [inbox[i] EXCEPT !.message.previous_message = e[2]]
        ELSE inbox[i]]

packet_receive(self, packet) ==
    IF \/ packet.header.sender_uuid # self.other_uuid
       \/ packet.header.recipient_uuid # self.self_uuid
       \/ packet.control = NoControl
    THEN [raised |-> TRUE, self |-> self]
    ELSE
    LET ts == packet.header.packet_timestamp
        c == packet.control
        s1 == [self EXCEPT !.inbox = GrowInbox(@, c.sender_clock_sender)]
        acks == ((other_clock_self(s1) + 1)..c.sender_clock_recipient)
                    \cup Range(c.sender_clock_out_of_order)
        s2 == [s1 EXCEPT !.outbox = AckOutbox(@, acks, ts),
                         !._cached_other_clock_self = c.sender_clock_recipient,
                         !.inbox = AckAckInbox(@, c.recipient_clock_sender, ts)]
        nack_ids == Range(c.nack_ids)
        s3 == IF nack_ids = {} THEN s2
              ELSE [TouchClockOther(s2) EXCEPT
                      !.outbox = ApplyNacks(@, NackSliceStart(s2), nack_ids)]
        unlinked == s3._inbox_unlinked_previous_messages
                        \cup NewUnlinked(s3.inbox, packet.messages)
        s4 == [s3 EXCEPT !.inbox = StoreMessages(@, packet.messages, ts)]
        s5 == [s4 EXCEPT !.inbox = LinkMessages(@, unlinked),
                         !._inbox_unlinked_previous_messages =
                              unlinked \ Linkable(s4.inbox, unlinked)]
        \* self.inbox[message.header.message_id - 1] past the end: IndexError
        \* after the messages before it were stored
        past == {k \in DOMAIN packet.messages :
                    packet.messages[k].message_id > Len(s3.inbox)}
        stored == SubSeq(packet.messages, 1,
                         (CHOOSE k \in past : \A j \in past : k <= j) - 1)
    IN  IF past # {}
        THEN [raised |-> TRUE,
              self |-> [s3 EXCEPT !.inbox = StoreMessages(@, stored, ts),
                                  !._inbox_unlinked_previous_messages =
                                       @ \cup NewUnlinked(s3.inbox, stored)]]
        ELSE [raised |-> FALSE, self |-> s5]

---------------------------------------------------------------------------
(* Message.from_content and Messenger.append_outbox_data *)

\* coerce.from_string: UTF-8 of a sequence of code points below 0x800
RECURSIVE from_string(_)
from_string(text) ==
    IF text = <<>> THEN <<>>
    ELSE (IF Head(text) < 128 THEN <<Head(text)>>
          ELSE <<192 + (Head(text) \div 64), 128 + (Head(text) % 64)>>)
         \o from_string(Tail(text))

RECURSIVE JoinMembers(_)
\* the members of a dict as json.dumps writes them: "key": value, joined
\* by ", " (keys are ASCII strings without quotes, values the ints 0..9)
JoinMembers(members) ==
    IF members = <<>> THEN <<>>
    ELSE <<34>> \o Head(members)[1] \o <<34, 58, 32, 48 + Head(members)[2]>>
         \o (IF Tail(members) = <<>> THEN <<>> ELSE <<44, 32>>)
         \o JoinMembers(Tail(members))

\* json.dumps of a dict, given as the sequence of its <<key, value>> items
json_dumps(members) == <<123>> \o JoinMembers(members) \o <<125>>

\* from_content with every payload typed BINARY
from_content_AsBinary(message_id, content) ==
    [message_id |-> message_id,
     message_prev |-> 0,
     content_type |-> ContentType_BINARY,
     binary_data |-> IF content.kind = "str" THEN from_string(content.value)
                     ELSE IF content.kind = "bytes" THEN content.value
                     ELSE from_string(json_dumps(content.value)),
     previous_message |-> 0]

\* content is [kind |-> "str" | "bytes" | "dict", value |-> sequence]
from_content(message_id, content) ==
    [message_id |-> message_id,
     message_prev |-> 0,
     content_type |-> IF content.kind = "str" THEN ContentType_STRING
                      ELSE IF content.kind = "bytes" THEN ContentType_BINARY
                      ELSE ContentType_JSON_DICT,
     binary_data |-> IF content.kind = "str" THEN from_string(content.value)
                     ELSE IF content.kind = "bytes" THEN content.value
                     ELSE from_string(json_dumps(content.value)),
     previous_message |-> 0]

\* _data = message.binary_data[_cursor:_cursor + MULTIPART_LIMIT_SIZE_BYTES]
Fragment(binary_data, _cursor) ==
    SubSeq(binary_data, _cursor + 1,
           IF _cursor + MULTIPART_LIMIT_SIZE_BYTES < Len(binary_data)
           THEN _cursor + MULTIPART_LIMIT_SIZE_BYTES ELSE Len(binary_data))

\* the message fragment cut at _cursor, before its id is set under the lock
MessagePart(message, _cursor, _previous_message_id, message_id) ==
    [from_content(message_id, [kind |-> "bytes", value |-> Fragment(message.binary_data, _cursor)])
        EXCEPT !.message_prev = _previous_message_id,
               !.content_type =
                   IF _cursor + MULTIPART_LIMIT_SIZE_BYTES < Len(message.binary_data)
                   THEN ContentType_MULTIPART_FRAGMENT
                   ELSE message.content_type]

\* the id the multipart loop reads inside the lock, taken from the fragment
\* as it was built before the lock
LockedMessageId_Stale(outbox, message) == message.message_id

\* the id a message gets inside "with self._outbox_lock"
LockedMessageId(outbox, message) == Len(outbox) + 1

RECURSIVE AppendParts(_, _, _, _)
\* the multipart loop run by one thread without interruption
AppendParts(outbox, message, _cursor, _previous_message_id) ==
    IF ~(_cursor < Len(message.binary_data)) THEN outbox
    ELSE LET part == MessagePart(message, _cursor, _previous_message_id, Len(outbox) + 1)
             id == LockedMessageId(outbox, part)
         IN  AppendParts(Append(outbox, OutboxItem([part EXCEPT !.message_id = id])),
                         message, _cursor + MULTIPART_LIMIT_SIZE_BYTES, id)

\* append_outbox_data run by one thread without interruption
append_outbox_data(self, data) ==
    LET message == from_content(Len(self.outbox) + 1, data)
    IN  IF Len(message.binary_data) <= MULTIPART_LIMIT_SIZE_BYTES
        THEN [self EXCEPT !.outbox =
                 Append(@, OutboxItem([message EXCEPT
                                         !.message_id = LockedMessageId(self.outbox, message)]))]
        ELSE TouchClockSelf([self EXCEPT !.outbox = AppendParts(@, message, 0, 0)])

---------------------------------------------------------------------------
(* Message.content of a message stored in an inbox *)

\* what a property returns instead of a payload: None, or ... for a fragment
NoContent == [kind |-> "None", value |-> <<>>]

EllipsisContent == [kind |-> "Ellipsis", value |-> <<>>]

RECURSIVE utf8_decode(_)
\* bytes.decode('utf8') of the encoding of code points below 0x800
utf8_decode(binary_data) ==
    IF binary_data = <<>> THEN <<>>
    ELSE IF Head(binary_data) < 128
    THEN <<Head(binary_data)>> \o utf8_decode(Tail(binary_data))
    ELSE <<(Head(binary_data) - 192) * 64 + (binary_data[2] - 128)>>
         \o utf8_decode(Tail(Tail(binary_data)))

\* coerce.to_string: empty bytes decode to None
to_string(binary_data) ==
    IF binary_data = <<>> THEN NoContent
    ELSE [kind |-> "str", value |-> utf8_decode(binary_data)]

RECURSIVE TakeKey(_)
\* the characters of a JSON string up to its closing quote
TakeKey(text) == IF Head(text) = 34 THEN <<>> ELSE <<Head(text)>> \o TakeKey(Tail(text))

RECURSIVE ParseMembers(_)
\* the members of a JSON object, read from after its "{" or after a member
ParseMembers(text) ==
    IF Head(text) = 125 THEN <<>>
    ELSE LET member == IF Head(text) = 44 THEN Tail(Tail(text)) ELSE text
             key == TakeKey(Tail(member))
             rest == SubSeq(member, Len(key) + 5, Len(member))
         IN  <<<<key, Head(rest) - 48>>>> \o ParseMembers(Tail(rest))

\* json.loads of the text of a JSON object
json_loads(text) == ParseMembers(Tail(text))

RECURSIVE multipart_binary_data(_, _)
\* Message.multipart_binary_data; previous_message is the id of the inbox
\* message it refers to, 0 while it is None
multipart_binary_data(inbox, message) ==
    IF message.message_prev # 0
    THEN IF message.previous_message = 0 THEN [none |-> TRUE, data |-> <<>>]
         ELSE LET out == multipart_binary_data(inbox, inbox[message.previous_message].message)
              IN  IF out.none THEN out
                  ELSE [none |-> FALSE, data |-> out.data \o message.binary_data]
    ELSE [none |-> FALSE, data |-> message.binary_data]

\* Message.content
Message_content(inbox, message) ==
    LET _data == multipart_binary_data(inbox, message)
    IN  IF _data.none THEN NoContent
        ELSE IF message.content_type = ContentType_STRING THEN to_string(_data.data)
        ELSE IF message.content_type = ContentType_BINARY
        THEN [kind |-> "bytes", value |-> _data.data]
        ELSE IF message.content_type = ContentType_JSON_DICT
        THEN LET text == to_string(_data.data)
             IN  [kind |-> "dict", value |-> json_loads(text.value)]
        ELSE EllipsisContent

---------------------------------------------------------------------------
(* Server._try_read_input_files: the body of its loop for one ready file *)

\* what Packet.from_file makes of a file that held packet p: an exception
\* (header), p without control and messages, p with a proper prefix of its
\* messages, or p
Decodings(p) ==
    {[raised |-> TRUE, packet |-> NoPacket]}
    \cup {[raised |-> FALSE, packet |-> Packet(p.header, NoControl, <<>>)]}
    \cup {[raised |-> FALSE, packet |-> Packet(p.header, p.control, SubSeq(p.messages, 1, k))] :
            k \in 0..Len(p.messages)}

\* nack incomplete packets: the test of controller.py:79
IsIncomplete(packet) ==
    \/ packet.control = NoControl
    \/ packet.header.num_messages < Len(packet.messages)

try_read_input_file(self, decoded, _packet_id) ==
    IF decoded.raised
    THEN [self EXCEPT !.nack_ids = @ \cup {StrId(_packet_id)}]
    ELSE IF decoded.packet.header.recipient_uuid # self.self_uuid
    THEN self
    ELSE LET r == packet_receive(self, decoded.packet)
         IN  IF r.raised
             THEN [r.self EXCEPT !.nack_ids = @ \cup {StrId(_packet_id)}]
             ELSE IF IsIncomplete(decoded.packet)
             THEN [r.self EXCEPT !.nack_ids = @ \cup {IntId(decoded.packet.header.packet_id)}]
             ELSE r.self

---------------------------------------------------------------------------
(* The state machine *)

\* payloads append_outbox_data is called with
Hello == [kind |-> "str", value |-> <<104, 105>>]

Contents == {Hello}

\* retransmission_timeout arguments: the default (None) and "resend now"
Timeouts == {RETRANSMISSION_TIMEOUT, 0}

\* a thread that is not inside append_outbox_data, and the locals of one
\* that is
NoThread ==
    [pc |-> "idle", m |-> "A", message |-> NoMessage, _cursor |-> 0,
     _previous_message_id |-> 0, _message_part |-> NoMessage]

\* _outbox_lock = Lock(): the thread that holds it, Unlocked when none does
Unlocked == 0

\* no call has raised KeyError yet
NoRaise == [op |-> "", mismatched |-> ""]

\* nothing called yet: no packet waits for its packet_send, no NACK applied,
\* no packet file of the peer read and deleted, no call raised, no payload
\* passed to append_outbox_data, no packet encoded under a hash_key and a
\* secret_key, no packet taken by packet_receive
NoCalls ==
    [in_order |-> TRUE, latest_sent |-> TRUE, nacked |-> {}, read |-> {},
     raised |-> NoRaise, appended |-> <<>>, keys |-> <<>>,
     largest |-> 0, late |-> FALSE]

\* an empty drop folder, and no Server started.  A file is [prefix,
\* sentinel, body]: how many of the 4 bytes of the size sentinel it has, the
\* number they encode, and the bytes after them.
NoFolder == [path \in {} |-> 0]

\* a Server with no BinaryReader in _current_files and no BinaryWriter f
\* open, outside run_once (round), none of whose run_once calls raised
NoServer ==
    [_current_files |-> [path \in {} |-> 0], f |-> [pc |-> "none"],
     round |-> [phase |-> "idle", todo |-> {}, at |-> <<>>],
     raised |-> [op |-> "", error |-> ""]]

NoServers == [u \in UUIDS |-> NoServer]

Init ==
    /\ messengers = [u \in UUIDS |-> Messenger(u, Other(u))]
    /\ packets = [u \in UUIDS |-> <<>>]
    /\ now = 0
    /\ threads = [t \in {} |-> NoThread]
    /\ _outbox_lock = Unlocked
    /\ calls = [u \in UUIDS |-> NoCalls]
    /\ folder = NoFolder
    /\ servers = NoServers

\* one whole append_outbox_data call on m
AppendOutboxData(m, data) ==
    /\ Len(messengers["A"].outbox) + Len(messengers["B"].outbox) < MaxOutbox
    /\ messengers' = [messengers EXCEPT ![m] = append_outbox_data(@, data)]
    /\ UNCHANGED <<packets, now, threads, _outbox_lock, calls, folder, servers>>

\* m.create_packet(retransmission_timeout); the packet it returns is kept
CreatePacket(m, retransmission_timeout) ==
    /\ messengers["A"].num_sent_packets + messengers["B"].num_sent_packets < MaxPackets
    /\ LET r == create_packet(messengers[m], now, retransmission_timeout)
       IN  /\ messengers' = [messengers EXCEPT ![m] = r.self]
           /\ packets' = IF r.raised THEN packets
                         ELSE [packets EXCEPT ![m] = Append(@, r.packet)]
    /\ UNCHANGED <<now, threads, _outbox_lock, calls, folder, servers>>

\* m.packet_send(p) for a packet p that m created
PacketSend(m, k) ==
    /\ k \in DOMAIN packets[m]
    /\ messengers' = [messengers EXCEPT ![m] = packet_send(@, packets[m][k]).self]
    /\ UNCHANGED <<packets, now, threads, _outbox_lock, calls, folder, servers>>

\* the controller of m reads a file that holds (what is left of) the k-th
\* packet of its peer; any packet at any time, any number of times
TryReadInputFile(m, k, decoded) ==
    /\ k \in DOMAIN packets[Other(m)]
    /\ decoded \in Decodings(packets[Other(m)][k])
    /\ messengers' = [messengers EXCEPT ![m] = try_read_input_file(@, decoded, k)]
    /\ UNCHANGED <<packets, now, threads, _outbox_lock, calls, folder, servers>>

Tick ==
    /\ now < MaxTime
    /\ now' = now + 1
    /\ UNCHANGED <<messengers, packets, threads, _outbox_lock, calls, folder, servers>>

Next ==
    \/ \E m \in UUIDS, data \in Contents : AppendOutboxData(m, data)
    \/ \E m \in UUIDS, t \in Timeouts : CreatePacket(m, t)
    \/ \E m \in UUIDS : \E k \in DOMAIN packets[m] : PacketSend(m, k)
    \/ \E m \in UUIDS : \E k \in DOMAIN packets[Other(m)] :
          \E decoded \in Decodings(packets[Other(m)][k]) : TryReadInputFile(m, k, decoded)
    \/ Tick

Spec == Init /\ [][Next]_vars

---------------------------------------------------------------------------
(* Claims about the Messenger state machine (Spec) *)

Outbox(m) == messengers[m].outbox

Inbox(m) == messengers[m].inbox

\* some packet of m created at time ts acknowledges the peer's message i
AcksAt(m, i, ts) ==
    \E k \in DOMAIN packets[m] :
        /\ packets[m][k].header.packet_timestamp = ts
        /\ \/ i <= packets[m][k].control.sender_clock_recipient
           \/ i \in Range(packets[m][k].control.sender_clock_out_of_order)

\* C2: once outbox[i].acked is non-null, no step (packet_receive with NACKs
\* or with a later ack, packet_send, create_packet) changes it.
C2_AckedNeverChanges ==
    [][\A m \in UUIDS : \A i \in DOMAIN Outbox(m) :
          Outbox(m)[i].acked # None
              => messengers'[m].outbox[i].acked = Outbox(m)[i].acked]_vars

\* C2 witness: an outbox item acked at time 0 whose owner has afterwards
\* processed a packet of time 1 that acknowledges the same item (the owner
\* holds a message that only that later packet carried).
C2_Witness ==
    \E m \in UUIDS :
        /\ Len(Outbox(m)) >= 1 /\ Outbox(m)[1].acked = 0
        /\ Len(Inbox(m)) >= 1 /\ Inbox(m)[1].packet_timestamp = 1
        /\ AcksAt(Other(m), 1, 1)

\* the wire fields of a stored message (linking sets previous_message later)
SameMessage(a, b) ==
    /\ a.message_id = b.message_id
    /\ a.message_prev = b.message_prev
    /\ a.content_type = b.content_type
    /\ a.binary_data = b.binary_data

\* C3: once inbox[i].message is non-null, the message and its
\* packet_timestamp never change; once inbox[i].ack_acked is non-null it
\* never changes.
C3_InboxNeverReplaced ==
    [][\A m \in UUIDS : \A i \in DOMAIN Inbox(m) :
          /\ Inbox(m)[i].message # NoMessage
                => /\ SameMessage(messengers'[m].inbox[i].message, Inbox(m)[i].message)
                   /\ messengers'[m].inbox[i].packet_timestamp = Inbox(m)[i].packet_timestamp
          /\ Inbox(m)[i].ack_acked # None
                => messengers'[m].inbox[i].ack_acked = Inbox(m)[i].ack_acked]_vars

\* C3 witness: message 1 is stored from a packet of time 0 and message 2
\* from a packet of time 1, and every packet of the peer that carries
\* message 2 carries message 1 as well: the retransmission of message 1 has
\* been received and has not replaced it.
C3_Witness ==
    \E m \in UUIDS :
        /\ Len(Inbox(m)) >= 2
        /\ Inbox(m)[1].message # NoMessage /\ Inbox(m)[1].packet_timestamp = 0
        /\ Inbox(m)[2].message # NoMessage /\ Inbox(m)[2].packet_timestamp = 1
        /\ \A k \in DOMAIN packets[Other(m)] :
              LET ids == {packets[Other(m)][k].messages[j].message_id :
                            j \in DOMAIN packets[Other(m)][k].messages}
              IN  2 \in ids => 1 \in ids

\* C4: every InboxItem moves EMPTY -> RECEIVED -> ACKED -> ACK_ACKED:
\* ack_acked non-null implies acked non-null, and acked non-null implies
\* message non-null.
C4_InboxForwardOnly ==
    \A m \in UUIDS : \A i \in DOMAIN Inbox(m) :
        /\ Inbox(m)[i].ack_acked # None => Inbox(m)[i].acked # None
        /\ Inbox(m)[i].acked # None => Inbox(m)[i].message # NoMessage

C9_OtherClockSelfCursorMonotonic ==
    [][\A m \in UUIDS :
          messengers'[m]._cached_other_clock_self
              >= messengers[m]._cached_other_clock_self]_vars

\* C10: the scan cursor _cached_clock_other never decreases.
C10_ClockOtherCursorMonotonic ==
    [][\A m \in UUIDS :
          messengers'[m]._cached_clock_other
              >= messengers[m]._cached_clock_other]_vars

\* C11: in every reachable state clock_self >= other_clock_self and
\* other_clock_other >= clock_other: the acked prefix never exceeds
\* len(outbox) and the received prefix never exceeds len(inbox); the scan
\* cursors the two prefixes are computed from stay within the lists too.
C11_ClockBounds ==
    \A m \in UUIDS :
        /\ clock_self(messengers[m]) >= other_clock_self(messengers[m])
        /\ other_clock_other(messengers[m]) >= clock_other(messengers[m])
        /\ messengers[m]._cached_other_clock_self <= Len(Outbox(m))
        /\ messengers[m]._cached_clock_other <= Len(Inbox(m))

\* C11 witness: both prefixes are non-empty and strictly below the lists:
\* m has two messages of which the first is acked, its peer has an inbox of
\* two slots of which the first is filled.
C11_Witness ==
    \E m \in UUIDS :
        /\ clock_self(messengers[m]) = 2
        /\ other_clock_self(messengers[m]) = 1
        /\ other_clock_other(messengers[Other(m)]) = 2
        /\ clock_other(messengers[Other(m)]) = 1

\* C12: every packet returned by create_packet has a total wire size
\* (PACKET_HEADER_SIZE + control.size_bytes + the sum of message.size_bytes)
\* of at most PACKET_LIMIT_SIZE_BYTES.
C12_PacketSizeCap ==
    \A m \in UUIDS : \A k \in DOMAIN packets[m] :
        PacketSize(packets[m][k]) <= PACKET_LIMIT_SIZE_BYTES

\* C13: the k-th successful create_packet call of a Messenger returns a
\* packet with header.packet_id = k (so no two packets of one Messenger
\* share an id), and num_sent_packets, the number of those calls, never
\* decreases.
C13_PacketIdsIncrease ==
    /\ [](\A m \in UUIDS :
             /\ messengers[m].num_sent_packets = Len(packets[m])
             /\ \A k \in DOMAIN packets[m] : packets[m][k].header.packet_id = k)
    /\ [][\A m \in UUIDS :
             messengers'[m].num_sent_packets >= messengers[m].num_sent_packets]_vars

\* C13 witness: a Messenger has created three packets, its peer none.
C13_Witness ==
    \E m \in UUIDS :
        /\ Len(packets[m]) = 3
        /\ packets[m][3].header.packet_id = 3
        /\ messengers[m].num_sent_packets = 3

\* the length of the longest prefix of inbox whose items all have a message
FilledPrefix(inbox) ==
    CHOOSE n \in 0..Len(inbox) :
        /\ \A i \in 1..n : inbox[i].message # NoMessage
        /\ n = Len(inbox) \/ inbox[n + 1].message = NoMessage

\* C17: clock_other is the length of the longest prefix of inbox whose
\* items all have a message, and clock_out_of_order is the ascending list
\* of the message ids of the items above that prefix that have a message.
C17_OutOfOrderTracking ==
    \A m \in UUIDS :
        /\ clock_other(messengers[m]) = FilledPrefix(Inbox(m))
        /\ clock_out_of_order(messengers[m]) =
              SortedSeq({i \in (FilledPrefix(Inbox(m)) + 1)..Len(Inbox(m)) :
                           Inbox(m)[i].message # NoMessage})

\* C17 witness: message 2 was received before message 1, after the scan
\* cursor had been moved: clock_other = 0 and clock_out_of_order = [2].
C17_Witness ==
    \E m \in UUIDS :
        /\ Len(Inbox(m)) = 2
        /\ Inbox(m)[1].message = NoMessage
        /\ Inbox(m)[2].message # NoMessage
        /\ clock_other(messengers[m]) = 0
        /\ clock_out_of_order(messengers[m]) = <<2>>
        /\ messengers[m].num_sent_packets >= 1

\* a receives packet p of its peer intact, the first packet it creates
\* afterwards is received by the peer, and the first packet the peer creates
\* after that is received by a
Handshake(ms, a, p, t) ==
    LET b == Other(a)
        b1 == packet_receive(ms[b], p).self
        q == create_packet(b1, t, RETRANSMISSION_TIMEOUT)
        a1 == packet_receive(ms[a], q.packet).self
        r == create_packet(a1, t, RETRANSMISSION_TIMEOUT)
        b2 == packet_receive(q.self, r.packet).self
    IN  [raised |-> q.raised \/ r.raised, b1 |-> b1, a1 |-> a1, b2 |-> b2]

\* C16 as stated: if B receives intact a packet from A carrying message m,
\* the first packet B creates afterwards, once received by A, makes
\* A.outbox[m-1].acked non-null, and the first packet A creates after that,
\* once received by B, makes B.inbox[m-1].ack_acked non-null.
C16_ThreePacketHandshake ==
    \A a \in UUIDS : \A k \in DOMAIN packets[a] : \A j \in DOMAIN packets[a][k].messages :
        LET h == Handshake(messengers, a, packets[a][k], now)
            m == packets[a][k].messages[j].message_id
        IN  ~h.raised =>
                /\ h.a1.outbox[m].acked # None
                /\ h.b2.inbox[m].ack_acked # None

\* C16 amended: the first half for every message m of the packet, the
\* second half for the messages m such that B holds every message up to m
\* once it has received the packet.
C16_HandshakeOfReceivedPrefix ==
    \A a \in UUIDS : \A k \in DOMAIN packets[a] : \A j \in DOMAIN packets[a][k].messages :
        LET h == Handshake(messengers, a, packets[a][k], now)
            m == packets[a][k].messages[j].message_id
        IN  ~h.raised =>
                /\ h.a1.outbox[m].acked # None
                /\ m <= clock_other(h.b1) => h.b2.inbox[m].ack_acked # None

\* C16 witness: one A -> B packet, one B -> A packet and a second A -> B
\* packet have been created and received, message 1 is acked in the outbox
\* of its sender and ack_acked in the inbox of its receiver.
C16_Witness ==
    \E a \in UUIDS :
        /\ Len(packets[a]) = 2 /\ Len(packets[Other(a)]) = 1
        /\ Len(packets[a][1].messages) = 1
        /\ Len(Outbox(a)) = 1 /\ Outbox(a)[1].acked # None
        /\ Len(Inbox(Other(a))) = 1
        /\ Inbox(Other(a))[1].message # NoMessage
        /\ Inbox(Other(a))[1].ack_acked # None

\* what the claim on duplicate delivery compares: the inbox messages, the
\* acked, ack_acked, packet_id and packet_timestamp fields and the clocks
Observed(self) ==
    [inbox |-> self.inbox,
     acked |-> [i \in DOMAIN self.outbox |-> self.outbox[i].acked],
     packet_id |-> [i \in DOMAIN self.outbox |-> self.outbox[i].packet_id],
     packet_timestamp |-> [i \in DOMAIN self.outbox |-> self.outbox[i].packet_timestamp],
     clocks |-> <<clock_self(self), clock_other(self), clock_out_of_order(self),
                  other_clock_self(self), other_clock_other(self),
                  other_clock_out_of_order(self)>>]

\* C18: for every reachable Messenger state and every packet (whole or
\* partial) of its peer, packet_receive applied twice yields the same inbox
\* messages, acked, ack_acked, packet_id / packet_timestamp and clock values
\* as applied once.
C18_ReceiveIdempotent ==
    \A m \in UUIDS : \A k \in DOMAIN packets[Other(m)] :
        \A decoded \in Decodings(packets[Other(m)][k]) :
            LET once == packet_receive(messengers[m], decoded.packet)
                twice == packet_receive(once.self, decoded.packet)
            IN  /\ twice.raised = once.raised
                /\ Observed(twice.self) = Observed(once.self)

\* C18 witness: a Messenger holds a packet of its peer whose first receipt
\* acknowledges one of its outbox items and resets the slot of another by a
\* NACK.
C18_Witness ==
    \E m \in UUIDS : \E k \in DOMAIN packets[Other(m)] :
        LET once == packet_receive(messengers[m], packets[Other(m)][k])
        IN  /\ ~once.raised
            /\ Observed(once.self).acked # Observed(messengers[m]).acked
            /\ Observed(once.self).packet_id # Observed(messengers[m]).packet_id

\* the step is no append_outbox_data: no outbox grows
NoAppend == \A u \in UUIDS : Len(messengers'[u].outbox) = Len(messengers[u].outbox)

\* C19 as stated: once a Messenger reports is_synchronized and no
\* append_outbox_data follows on either side, is_synchronized stays true
\* after any create_packet, packet_send or packet_receive of old packets.
C19_SynchronizedStays ==
    [][\A m \in UUIDS :
          (is_synchronized(messengers[m]) /\ NoAppend) => is_synchronized(messengers'[m])]_vars

\* C19 amended: once both Messengers report is_synchronized and no
\* append_outbox_data follows, is_synchronized stays true on both sides.
C19_BothSynchronizedStay ==
    [][((\A m \in UUIDS : is_synchronized(messengers[m])) /\ NoAppend)
          => \A m \in UUIDS : is_synchronized(messengers'[m])]_vars

\* C19 witness: both Messengers are synchronized, one with an acked message
\* in its outbox, after that one received a reordered old packet that set
\* its scan cursor back below the acked prefix.
C19_Witness ==
    /\ \A m \in UUIDS : is_synchronized(messengers[m])
    /\ \E m \in UUIDS :
          /\ Len(Outbox(m)) >= 1
          /\ messengers[m]._cached_other_clock_self < other_clock_self(messengers[m])

\* C21: create_packet called with a negative retransmission_timeout is
\* refused with an error and changes no Messenger state: num_sent_packets,
\* nack_ids and _sent_nack_ids stay as they are and no packet is returned.
C21_NegativeTimeoutRefused ==
    \A m \in UUIDS : \A retransmission_timeout \in {-1, -RETRANSMISSION_TIMEOUT} :
        LET r == create_packet(messengers[m], now, retransmission_timeout)
        IN  /\ r.raised
            /\ r.packet = NoPacket
            /\ r.self.num_sent_packets = messengers[m].num_sent_packets
            /\ r.self.nack_ids = messengers[m].nack_ids
            /\ r.self._sent_nack_ids = messengers[m]._sent_nack_ids

\* C29: after packet_receive(p) with p.control.nack_ids = N, every outbox
\* item that is not acked once the acks of p are applied and whose
\* packet_id is in N has packet_id and packet_timestamp cleared, whatever
\* its index and whatever clock_other is.
C29_NackClearsEveryUnackedItem ==
    \A m \in UUIDS : \A k \in DOMAIN packets[Other(m)] :
        LET p == packets[Other(m)][k]
            r == packet_receive(messengers[m], p)
        IN  ~r.raised =>
                \A i \in DOMAIN Outbox(m) :
                    (/\ r.self.outbox[i].acked = None
                     /\ Outbox(m)[i].packet_id # None
                     /\ Outbox(m)[i].packet_id \in Range(p.control.nack_ids))
                    => /\ r.self.outbox[i].packet_id = None
                       /\ r.self.outbox[i].packet_timestamp = None

\* C30: after packet_send(p) on the Messenger that created p, every inbox
\* item that p acknowledges (index < p.control.sender_clock_recipient, or
\* message id in p.control.sender_clock_out_of_order) has acked non-null.
C30_SendAcksInbox ==
    \A m \in UUIDS : \A k \in DOMAIN packets[m] :
        LET p == packets[m][k]
            r == packet_send(messengers[m], p)
        IN  \A i \in DOMAIN r.self.inbox :
                (\/ i <= p.control.sender_clock_recipient
                 \/ i \in Range(p.control.sender_clock_out_of_order))
                => r.self.inbox[i].acked # None

\* the outbox indices create_packet(t) has to send at current_timestamp:
\* at or after other_clock_self, not acked, never sent or sent at least t ago
Due(self, t, current_timestamp) ==
    {i \in (other_clock_self(self) + 1)..Len(self.outbox) :
        /\ self.outbox[i].acked = None
        /\ \/ self.outbox[i].packet_timestamp = None
           \/ self.outbox[i].packet_timestamp + t <= current_timestamp}

\* the size cap keeps no message of the outbox out of the packet
CapNotBinding(self, packet) ==
    \A i \in DOMAIN self.outbox :
        PACKET_HEADER_SIZE + ControlSize(packet.control) + MessageSize(self.outbox[i].message)
            <= PACKET_LIMIT_SIZE_BYTES

\* C31: when the size cap is not binding, create_packet(t) returns, in
\* ascending message_id order, exactly the outbox messages at index >=
\* other_clock_self that are not acked and whose packet_timestamp is null
\* or satisfies packet_timestamp + t <= now, and header.num_messages is
\* their number; so a message sent at s is in the packet of every
\* create_packet(t) called at or after s + t while it is not acked.
C31_MessageSelection ==
    \A m \in UUIDS : \A t \in {0, 1, RETRANSMISSION_TIMEOUT} :
        LET self == messengers[m]
            r == create_packet(self, now, t)
            messages == r.packet.messages
        IN  ~r.raised /\ CapNotBinding(self, r.packet) =>
                /\ {messages[k].message_id : k \in DOMAIN messages} = Due(self, t, now)
                /\ \A k \in DOMAIN messages : messages[k] = self.outbox[messages[k].message_id].message
                /\ \A k, l \in DOMAIN messages : k < l => messages[k].message_id < messages[l].message_id
                /\ r.packet.header.num_messages = Len(messages)
                /\ Len(messages) = Cardinality(Due(self, t, now))

\* C31 witness: a Messenger with two unacked messages, the first sent at 0
\* and the second never, at time 1: create_packet(1) is called exactly at
\* s + t and returns both, create_packet() returns the second only
C31_Witness ==
    \E m \in UUIDS :
        /\ Len(Outbox(m)) = 2 /\ now = 1
        /\ Outbox(m)[1].packet_timestamp = 0 /\ Outbox(m)[1].acked = None
        /\ Outbox(m)[2].packet_timestamp = None /\ Outbox(m)[2].acked = None
        /\ Len(create_packet(messengers[m], now, 1).packet.messages) = 2
        /\ Len(create_packet(messengers[m], now, RETRANSMISSION_TIMEOUT).packet.messages) = 1

\* C32: packet_send(p) gives every outbox item whose message is in p and
\* which is not acked the packet_timestamp and packet_id of p, and leaves
\* every other outbox item (acked, or its message not in p) as it is.
C32_SendBookkeeping ==
    \A m \in UUIDS : \A k \in DOMAIN packets[m] :
        LET p == packets[m][k]
            r == packet_send(messengers[m], p)
            ids == {p.messages[j].message_id : j \in DOMAIN p.messages}
        IN  /\ ~r.raised
            /\ DOMAIN r.self.outbox = DOMAIN Outbox(m)
            /\ \A i \in DOMAIN Outbox(m) :
                  IF i \in ids /\ Outbox(m)[i].acked = None
                  THEN r.self.outbox[i] =
                          [Outbox(m)[i] EXCEPT !.packet_timestamp = p.header.packet_timestamp,
                                               !.packet_id = p.header.packet_id]
                  ELSE r.self.outbox[i] = Outbox(m)[i]

\* C32 witness: a packet of m carries message 1, which has been acked since
\* and bears another packet_timestamp than the packet's, and message 2,
\* which is not acked
C32_Witness ==
    \E m \in UUIDS : \E k \in DOMAIN packets[m] :
        /\ Len(packets[m][k].messages) = 2
        /\ Outbox(m)[1].acked # None
        /\ Outbox(m)[1].packet_timestamp # packets[m][k].header.packet_timestamp
        /\ Outbox(m)[2].acked = None
        /\ Outbox(m)[2].packet_id # packets[m][k].header.packet_id

\* C36: the values returned by the clock_other and other_clock_self
\* properties never decrease, under any sequence of append_outbox_data,
\* create_packet, packet_send and packet_receive with reordered, repeated
\* and cut packets, also when the raw cursors were moved backwards.
C36_ClockValuesMonotonic ==
    [][\A m \in UUIDS :
          /\ clock_other(messengers'[m]) >= clock_other(messengers[m])
          /\ other_clock_self(messengers'[m]) >= other_clock_self(messengers[m])]_vars

\* C36 witness: both raw cursors were moved backwards.  One Messenger took a
\* stale packet after the one that acked its message 1, the other passed an
\* old packet to packet_send after it created one with sender_clock_recipient
\* 1; both properties still return 1.
C36_Witness ==
    \E m \in UUIDS :
        /\ Len(Outbox(m)) >= 1 /\ Outbox(m)[1].acked # None
        /\ messengers[m]._cached_other_clock_self = 0
        /\ other_clock_self(messengers[m]) = 1
        /\ Len(packets[Other(m)]) >= 1
        /\ packets[Other(m)][Len(packets[Other(m)])].control.sender_clock_recipient = 1
        /\ messengers[Other(m)]._cached_clock_other = 0
        /\ clock_other(messengers[Other(m)]) = 1

\* C37: no false acknowledgement.  Between two paired Messengers that
\* exchange only packets of their own create_packet, lost, repeated,
\* reordered or cut on the way, whenever outbox[i].acked of one is non-null
\* the inbox of the other holds at i a message with the same header fields
\* and payload; hence other_clock_self of the one is at most clock_other of
\* the other.
C37_NoFalseAck ==
    \A m \in UUIDS :
        /\ \A i \in DOMAIN Outbox(m) :
              Outbox(m)[i].acked # None =>
                  /\ i <= Len(Inbox(Other(m)))
                  /\ Inbox(Other(m))[i].message # NoMessage
                  /\ SameMessage(Inbox(Other(m))[i].message, Outbox(m)[i].message)
        /\ other_clock_self(messengers[m]) <= clock_other(messengers[Other(m)])

\* C37 witness: message 2 is acked out of order while message 1, sent and
\* lost, is neither stored by the peer nor acked.
C37_Witness ==
    \E m \in UUIDS :
        /\ Len(Outbox(m)) = 2
        /\ Outbox(m)[1].acked = None /\ Outbox(m)[1].packet_id # None
        /\ Outbox(m)[2].acked # None
        /\ Inbox(Other(m))[1].message = NoMessage
        /\ Inbox(Other(m))[2].message # NoMessage
        /\ other_clock_self(messengers[m]) = 0

---------------------------------------------------------------------------
(* The inbox as a log of the peer's outbox (SpecLinear): the operations of *)
(* Spec, with calls recording per Messenger the largest                    *)
(* sender_clock_sender of the packets packet_receive took (largest) and    *)
(* whether one of them came after a packet with a larger one (late).       *)

\* packet_receive takes the decoded file: it was parsed, is addressed to
\* self, and packet_receive does not raise
Received(self, decoded) ==
    /\ ~decoded.raised
    /\ decoded.packet.header.recipient_uuid = self.self_uuid
    /\ ~packet_receive(self, decoded.packet).raised

\* the controller of m reads a file that holds (what is left of) the k-th
\* packet of its peer
LinearTryReadInputFile(m, k, decoded) ==
    /\ k \in DOMAIN packets[Other(m)]
    /\ decoded \in Decodings(packets[Other(m)][k])
    /\ messengers' = [messengers EXCEPT ![m] = try_read_input_file(@, decoded, k)]
    /\ calls' = IF ~Received(messengers[m], decoded) THEN calls
                ELSE LET clock == decoded.packet.control.sender_clock_sender
                     IN  [calls EXCEPT
                            ![m].largest = IF clock > @ THEN clock ELSE @,
                            ![m].late = @ \/ clock < calls[m].largest]
    /\ UNCHANGED <<packets, now, threads, _outbox_lock, folder, servers>>

NextLinear ==
    \/ \E m \in UUIDS, data \in Contents : AppendOutboxData(m, data)
    \/ \E m \in UUIDS, t \in Timeouts : CreatePacket(m, t)
    \/ \E m \in UUIDS : \E k \in DOMAIN packets[m] : PacketSend(m, k)
    \/ \E m \in UUIDS : \E k \in DOMAIN packets[Other(m)] :
          \E decoded \in Decodings(packets[Other(m)][k]) :
              LinearTryReadInputFile(m, k, decoded)
    \/ Tick

SpecLinear == Init /\ [][NextLinear]_vars

\* every stored message of the inboxes sits at the index of its message_id
InboxLinear(all) ==
    \A m \in UUIDS : \A i \in DOMAIN all[m].inbox :
        all[m].inbox[i].message # NoMessage => all[m].inbox[i].message.message_id = i

\* C35: receive-side linearisation.  Every inbox item with a message holds
\* the message whose message_id is its (1-based) index, whatever the order
\* in which the packets were delivered; len(inbox) never decreases and is
\* the largest sender_clock_sender of the packets received so far.
C35_ReceiveLinearisation ==
    [][/\ InboxLinear(messengers) /\ InboxLinear(messengers')
       /\ \A m \in UUIDS :
             /\ Len(messengers'[m].inbox) >= Len(Inbox(m))
             /\ Len(Inbox(m)) = calls[m].largest
             /\ Len(messengers'[m].inbox) = calls'[m].largest]_vars

\* C35 witness: a packet with a smaller sender_clock_sender was received
\* after one with a larger; both messages are stored, the first one from the
\* later delivery.
C35_Witness ==
    \E m \in UUIDS :
        /\ calls[m].late
        /\ calls[m].largest = 2
        /\ Len(Inbox(m)) = 2
        /\ Inbox(m)[1].message # NoMessage
        /\ Inbox(m)[2].message # NoMessage
        /\ \E k \in DOMAIN packets[Other(m)] :
              /\ packets[Other(m)][k].control.sender_clock_sender = 1
              /\ Len(packets[Other(m)][k].messages) = 1
              /\ \A l \in DOMAIN packets[Other(m)] :
                    l # k => \A j \in DOMAIN packets[Other(m)][l].messages :
                                 packets[Other(m)][l].messages[j].message_id # 1

---------------------------------------------------------------------------
(* append_outbox_data called from several threads (SpecAppend).  A step is *)
(* one access to the shared outbox or to the lock; the locals of a call    *)
(* are the fields of its thread.                                           *)

MaxThreads == 2

MaxAppend == 2

Threads == 1..MaxThreads

\* a payload above MULTIPART_LIMIT_SIZE_BYTES: it is cut in two fragments
Long == [kind |-> "bytes", value |-> [i \in 1..(MULTIPART_LIMIT_SIZE_BYTES + 5) |-> i]]

AppendContents == {Hello, Long}

\* Lock.acquire() without the mutual exclusion
LockAvailable_Always(lock) == TRUE

\* Lock.acquire() returns once no thread holds the lock
LockAvailable(lock) == lock = Unlocked

\* the assert of the clock_self property over the items after its cursor
ClockSelfAsserts(self) ==
    \A i \in (self._cached_clock_self + 1)..Len(self.outbox) :
        self.outbox[i].message.message_id = i

InitAppend ==
    /\ messengers = [u \in UUIDS |-> Messenger(u, Other(u))]
    /\ packets = [u \in UUIDS |-> <<>>]
    /\ now = 0
    /\ threads = [t \in Threads |-> NoThread]
    /\ _outbox_lock = Unlocked
    /\ calls = [u \in UUIDS |-> NoCalls]
    /\ folder = NoFolder
    /\ servers = NoServers

\* thread t enters m.append_outbox_data(data): Message.from_content with
\* message_id = len(self.outbox) + 1, then the size test
Call(t, m, data) ==
    /\ threads[t].pc = "idle"
    /\ Len(messengers["A"].outbox) + Len(messengers["B"].outbox) < MaxAppend
    /\ LET message == from_content(Len(messengers[m].outbox) + 1, data)
       IN  threads' = [threads EXCEPT ![t] =
               [pc |-> IF Len(message.binary_data) <= MULTIPART_LIMIT_SIZE_BYTES
                       THEN "single_lock" ELSE "loop",
                m |-> m, message |-> message, _cursor |-> 0,
                _previous_message_id |-> 0, _message_part |-> NoMessage]]
    /\ UNCHANGED <<messengers, packets, now, _outbox_lock, calls, folder, servers>>

\* "with self._outbox_lock:" of either branch
Acquire(t) ==
    /\ threads[t].pc \in {"single_lock", "part_lock"}
    /\ LockAvailable(_outbox_lock)
    /\ _outbox_lock' = t
    /\ threads' = [threads EXCEPT ![t].pc =
                      IF @ = "single_lock" THEN "single_set" ELSE "part_set"]
    /\ UNCHANGED <<messengers, packets, now, calls, folder, servers>>

\* message.header.message_id = len(self.outbox) + 1
SingleSetId(t) ==
    /\ threads[t].pc = "single_set"
    /\ threads' = [threads EXCEPT
          ![t].message.message_id =
              LockedMessageId(messengers[threads[t].m].outbox, threads[t].message),
          ![t].pc = "single_append"]
    /\ UNCHANGED <<messengers, packets, now, _outbox_lock, calls, folder, servers>>

\* self.outbox.append(OutboxItem(message)); return, which releases the lock
SingleAppend(t) ==
    /\ threads[t].pc = "single_append"
    /\ messengers' = [messengers EXCEPT ![threads[t].m].outbox =
                         Append(@, OutboxItem(threads[t].message))]
    /\ _outbox_lock' = Unlocked
    /\ threads' = [threads EXCEPT ![t] = NoThread]
    /\ UNCHANGED <<packets, now, calls, folder, servers>>

\* the loop test and the unlocked part of the body: cut the fragment and
\* build _message_part with message_id = len(self.outbox) + 1
LoopStep(t) ==
    /\ threads[t].pc = "loop"
    /\ LET th == threads[t]
       IN  threads' = [threads EXCEPT ![t] =
               IF th._cursor < Len(th.message.binary_data)
               THEN [th EXCEPT
                       !._message_part =
                           MessagePart(th.message, th._cursor, th._previous_message_id,
                                       Len(messengers[th.m].outbox) + 1),
                       !._cursor = @ + MULTIPART_LIMIT_SIZE_BYTES,
                       !.pc = "part_lock"]
               ELSE [th EXCEPT !.pc = "check"]]
    /\ UNCHANGED <<messengers, packets, now, _outbox_lock, calls, folder, servers>>

\* _message_part.header.message_id = _previous_message_id = len(self.outbox) + 1
PartSetId(t) ==
    /\ threads[t].pc = "part_set"
    /\ LET id == LockedMessageId(messengers[threads[t].m].outbox, threads[t]._message_part)
       IN  threads' = [threads EXCEPT ![t]._message_part.message_id = id,
                                      ![t]._previous_message_id = id,
                                      ![t].pc = "part_append"]
    /\ UNCHANGED <<messengers, packets, now, _outbox_lock, calls, folder, servers>>

\* self.outbox.append(OutboxItem(_message_part)); the with block ends
PartAppend(t) ==
    /\ threads[t].pc = "part_append"
    /\ messengers' = [messengers EXCEPT ![threads[t].m].outbox =
                         Append(@, OutboxItem(threads[t]._message_part))]
    /\ _outbox_lock' = Unlocked
    /\ threads' = [threads EXCEPT ![t].pc = "loop"]
    /\ UNCHANGED <<packets, now, calls, folder, servers>>

\* "_ = self.clock_self" after the loop; a failed assert leaves the cursor
Check(t) ==
    /\ threads[t].pc = "check"
    /\ messengers' = [messengers EXCEPT ![threads[t].m] =
                         IF ClockSelfAsserts(@) THEN TouchClockSelf(@) ELSE @]
    /\ threads' = [threads EXCEPT ![t] = NoThread]
    /\ UNCHANGED <<packets, now, _outbox_lock, calls, folder, servers>>

NextAppend ==
    \/ \E t \in Threads, m \in UUIDS, data \in AppendContents : Call(t, m, data)
    \/ \E t \in Threads : Acquire(t)
    \/ \E t \in Threads : SingleSetId(t)
    \/ \E t \in Threads : SingleAppend(t)
    \/ \E t \in Threads : LoopStep(t)
    \/ \E t \in Threads : PartSetId(t)
    \/ \E t \in Threads : PartAppend(t)
    \/ \E t \in Threads : Check(t)

SpecAppend == InitAppend /\ [][NextAppend]_vars

\* C5: outbox density: outbox[i].message.header.message_id == i + 1 at every
\* (0-based) index i of every outbox, in every state of concurrent
\* single-part and multipart append_outbox_data calls.
C5_OutboxDensity ==
    \A m \in UUIDS : \A i \in DOMAIN Outbox(m) : Outbox(m)[i].message.message_id = i

\* C5 witness: a single-part message of another thread sits between the two
\* fragments of a multipart append, and the fragment after it links back to
\* the fragment before it.
C5_Witness ==
    \E m \in UUIDS :
        /\ Len(Outbox(m)) = 3
        /\ Outbox(m)[1].message.content_type = ContentType_MULTIPART_FRAGMENT
        /\ Outbox(m)[2].message.content_type = ContentType_STRING
        /\ Outbox(m)[3].message.content_type = ContentType_BINARY
        /\ Outbox(m)[3].message.message_prev = 1
        /\ \A t \in Threads : threads[t].pc = "idle"

\* payload sizes around the multiples of MULTIPART_LIMIT_SIZE_BYTES
FragmentSizes ==
    {0, 1, MULTIPART_LIMIT_SIZE_BYTES, MULTIPART_LIMIT_SIZE_BYTES + 1,
     2 * MULTIPART_LIMIT_SIZE_BYTES, 2 * MULTIPART_LIMIT_SIZE_BYTES + 1}

\* a payload of n bytes, as bytes or as text
PayloadOf(kind, n) == [kind |-> kind, value |-> [i \in 1..n |-> 97 + (i % 26)]]

RECURSIVE ChainOf(_, _)
\* the ids reached from message id over message_prev, first fragment first
ChainOf(outbox, id) ==
    IF id = 0 \/ id > Len(outbox) THEN <<>>
    ELSE ChainOf(outbox, outbox[id].message.message_prev) \o <<id>>

\* the outbox items ids are the fragments of message, in order
IsFragmentChain(outbox, ids, message) ==
    LET n == Len(message.binary_data)
        count == Len(ids)
    IN  /\ count = (n + MULTIPART_LIMIT_SIZE_BYTES - 1) \div MULTIPART_LIMIT_SIZE_BYTES
        /\ \A j \in 1..count :
              LET part == outbox[ids[j]].message
                  from == (j - 1) * MULTIPART_LIMIT_SIZE_BYTES
              IN  /\ part.message_id = ids[j]
                  /\ part.message_prev = IF j = 1 THEN 0 ELSE ids[j - 1]
                  /\ IF j < count
                     THEN /\ part.content_type = ContentType_MULTIPART_FRAGMENT
                          /\ Len(part.binary_data) = MULTIPART_LIMIT_SIZE_BYTES
                     ELSE /\ part.content_type = message.content_type
                          /\ Len(part.binary_data) = n - from
                          /\ Len(part.binary_data) \in 1..MULTIPART_LIMIT_SIZE_BYTES
                  /\ part.binary_data =
                         SubSeq(message.binary_data, from + 1, from + Len(part.binary_data))

\* C33: fragmentation.  An uninterrupted append_outbox_data of n bytes
\* appends one item with message_prev = 0 when n <= MULTIPART_LIMIT_SIZE_BYTES
\* and otherwise exactly ceil(n / MULTIPART_LIMIT_SIZE_BYTES) items: the
\* non-final ones of MULTIPART_LIMIT_SIZE_BYTES bytes typed
\* MULTIPART_FRAGMENT, the final one with the rest and the original type,
\* each linked by message_prev to the id of the one before.  A call whose
\* loop has ended among interleaved calls of other threads has left the
\* same chain, message_prev being the id assigned to the preceding fragment.
C33_Fragmentation ==
    /\ \A m \in UUIDS : \A kind \in {"bytes", "str"} : \A n \in FragmentSizes :
          LET self == messengers[m]
              message == from_content(Len(self.outbox) + 1, PayloadOf(kind, n))
              after == append_outbox_data(self, PayloadOf(kind, n)).outbox
              added == (Len(self.outbox) + 1)..Len(after)
          IN  /\ SubSeq(after, 1, Len(self.outbox)) = self.outbox
              /\ IF n <= MULTIPART_LIMIT_SIZE_BYTES
                 THEN /\ Len(after) = Len(self.outbox) + 1
                      /\ after[Len(after)].message.message_prev = 0
                      /\ after[Len(after)].message.message_id = Len(after)
                      /\ after[Len(after)].message.content_type = message.content_type
                      /\ after[Len(after)].message.binary_data = message.binary_data
                 ELSE /\ ChainOf(after, Len(after)) =
                             [j \in 1..Cardinality(added) |-> Len(self.outbox) + j]
                      /\ IsFragmentChain(after, ChainOf(after, Len(after)), message)
    /\ \A t \in DOMAIN threads :
          threads[t].pc = "check" =>
              IsFragmentChain(Outbox(threads[t].m),
                              ChainOf(Outbox(threads[t].m), threads[t]._previous_message_id),
                              threads[t].message)

\* C33 witness: a call has ended its loop with two fragments at ids 1 and 3,
\* the item of another call between them.
C33_Witness ==
    \E t \in DOMAIN threads :
        /\ threads[t].pc = "check"
        /\ ChainOf(Outbox(threads[t].m), threads[t]._previous_message_id) = <<1, 3>>
        /\ Outbox(threads[t].m)[2].message.message_prev = 0

---------------------------------------------------------------------------
(* create_packet beside append_outbox_data (SpecScan).  create_packet does *)
(* not take _outbox_lock: a thread builds the Control block in one step    *)
(* and scans the outbox in a later one, and append_outbox_data calls of    *)
(* other threads run between the two.                                      *)

MaxScanPackets == 2

\* thread t enters m.create_packet(): the Control block, get_utc_timestamp()
\* and the size assertion
ScanBuildControl(t, m) ==
    /\ threads[t].pc = "idle"
    \* one create_packet at a time per Messenger (Server._write_output_files)
    /\ \A u \in Threads : threads[u].pc = "idle" \/ threads[u].m # m
    /\ Len(packets["A"]) + Len(packets["B"]) < MaxScanPackets
    /\ LET r == create_packet_control(messengers[m])
       IN  /\ messengers' = [messengers EXCEPT ![m] = r.self]
           /\ threads' = IF r.raised THEN threads
                         ELSE [threads EXCEPT ![t] =
                                  [pc |-> "scan", m |-> m, control |-> r.control,
                                   total_size_bytes |-> r.total_size_bytes,
                                   current_timestamp |-> now]]
    /\ UNCHANGED <<packets, now, _outbox_lock, calls, folder, servers>>

\* thread t goes on in create_packet: the scan of self.outbox, the
\* housekeeping of nacks, and the return of the packet
ScanOutboxAndReturn(t) ==
    /\ threads[t].pc = "scan"
    /\ LET th == threads[t]
           r == create_packet_scan(messengers[th.m], th.control, th.total_size_bytes,
                                   th.current_timestamp, RETRANSMISSION_TIMEOUT)
       IN  /\ messengers' = [messengers EXCEPT ![th.m] = r.self]
           /\ packets' = [packets EXCEPT ![th.m] = Append(@, r.packet)]
    /\ threads' = [threads EXCEPT ![t] = NoThread]
    /\ UNCHANGED <<now, _outbox_lock, calls, folder, servers>>

NextScan ==
    \/ \E m \in UUIDS, data \in Contents : AppendOutboxData(m, data)
    \/ \E t \in Threads, m \in UUIDS : ScanBuildControl(t, m)
    \/ \E t \in Threads : ScanOutboxAndReturn(t)
    \/ \E m \in UUIDS : \E k \in DOMAIN packets[m] : PacketSend(m, k)
    \/ \E m \in UUIDS : \E k \in DOMAIN packets[Other(m)] :
          \E decoded \in Decodings(packets[Other(m)][k]) : TryReadInputFile(m, k, decoded)

SpecScan == InitAppend /\ [][NextScan]_vars

\* C38: every packet returned by create_packet contains only messages with
\* message_id <= control.sender_clock_sender, also when append_outbox_data
\* runs on another thread between the construction of the Control block and
\* the scan of the outbox.
C38_MessagesWithinClock ==
    \A m \in UUIDS : \A k \in DOMAIN packets[m] :
        \A j \in DOMAIN packets[m][k].messages :
            packets[m][k].messages[j].message_id
                <= packets[m][k].control.sender_clock_sender

---------------------------------------------------------------------------
(* NACK ageing (SpecNack): the controller finds truncated packet files,    *)
(* each packet id once, while the Messengers keep creating packets.        *)

MaxNackIds == 1

MaxNackPackets == 7

\* the packets of m whose Control.nack_ids holds the packet id x
Emissions(m, x) ==
    {k \in DOMAIN packets[m] : x \in Range(packets[m][k].control.nack_ids)}

\* Server._find_input_files on a file shorter than 4 bytes:
\* messenger.nack_ids.add(_packet_id), the id being the file name's (a str)
find_short_file(self, _packet_id) ==
    [self EXCEPT !.nack_ids = @ \cup {StrId(_packet_id)}]

\* the one insertion of the foreign packet id _packet_id into m.nack_ids
FindShortFile(m, _packet_id) ==
    /\ StrId(_packet_id) \notin messengers[m].nack_ids
    /\ Emissions(m, _packet_id) = {}
    /\ messengers' = [messengers EXCEPT ![m] = find_short_file(@, _packet_id)]
    /\ UNCHANGED <<packets, now, threads, _outbox_lock, calls, folder, servers>>

\* m.create_packet(); the packet it returns is kept
NackCreatePacket(m) ==
    /\ Len(packets["A"]) + Len(packets["B"]) < MaxNackPackets
    /\ LET r == create_packet(messengers[m], now, RETRANSMISSION_TIMEOUT)
       IN  /\ messengers' = [messengers EXCEPT ![m] = r.self]
           /\ packets' = IF r.raised THEN packets
                         ELSE [packets EXCEPT ![m] = Append(@, r.packet)]
    /\ UNCHANGED <<now, threads, _outbox_lock, calls, folder, servers>>

NextNack ==
    \/ \E m \in UUIDS, _packet_id \in 1..MaxNackIds : FindShortFile(m, _packet_id)
    \/ \E m \in UUIDS : NackCreatePacket(m)

SpecNack == Init /\ [][NextNack]_vars

\* C6 as stated: a foreign packet id inserted once into nack_ids is in
\* Control.nack_ids of at most NACK_TRANSMIT_COUNT packets returned by
\* create_packet.
C6_AtMostTransmitCount ==
    \A m \in UUIDS : \A x \in 1..MaxNackIds :
        Cardinality(Emissions(m, x)) <= NACK_TRANSMIT_COUNT

\* C6 amended: a foreign packet id inserted once into nack_ids is in
\* Control.nack_ids of at most NACK_TRANSMIT_COUNT + 1 packets returned by
\* create_packet, all consecutive, and in no packet created after them.
C6_AtMostTransmitCountPlusOne ==
    \A m \in UUIDS : \A x \in 1..MaxNackIds :
        /\ Cardinality(Emissions(m, x)) <= NACK_TRANSMIT_COUNT + 1
        /\ \A k, l \in Emissions(m, x) : \A j \in k..l : j \in Emissions(m, x)

\* C6 witness: an id was emitted in NACK_TRANSMIT_COUNT + 1 packets and a
\* later packet was created without it.
C6_Witness ==
    \E m \in UUIDS : \E x \in 1..MaxNackIds :
        /\ Cardinality(Emissions(m, x)) = NACK_TRANSMIT_COUNT + 1
        /\ \E l \in DOMAIN packets[m] :
              /\ l \notin Emissions(m, x)
              /\ \A k \in Emissions(m, x) : k < l

---------------------------------------------------------------------------
(* NACK bookkeeping (SpecRenack): the controller finds truncated files of  *)
(* the same packet ids again and again, at any time between the            *)
(* create_packet calls.                                                    *)

MaxRenackIds == 2

\* the foreign packet id _packet_id is put into m.nack_ids, new or deleted
\* from _sent_nack_ids before (adding a tracked id, which create_packet left
\* in the set, changes nothing)
FindShortFileAgain(m, _packet_id) ==
    /\ StrId(_packet_id) \notin messengers[m].nack_ids
    /\ messengers' = [messengers EXCEPT ![m] = find_short_file(@, _packet_id)]
    /\ UNCHANGED <<packets, now, threads, _outbox_lock, calls, folder, servers>>

NextRenack ==
    \/ \E m \in UUIDS, _packet_id \in 1..MaxRenackIds : FindShortFileAgain(m, _packet_id)
    \/ \E m \in UUIDS : NackCreatePacket(m)

SpecRenack == Init /\ [][NextRenack]_vars

\* the nack sets left by a create_packet: nack_ids is the key set of
\* _sent_nack_ids and every count lies in 1..NACK_TRANSMIT_COUNT
NacksTracked(self) ==
    /\ self.nack_ids = DOMAIN self._sent_nack_ids
    /\ \A x \in DOMAIN self._sent_nack_ids :
          self._sent_nack_ids[x] \in 1..NACK_TRANSMIT_COUNT

\* C39: NACK bookkeeping.  Immediately after every create_packet nack_ids
\* equals the key set of _sent_nack_ids and every count of _sent_nack_ids
\* lies in 1..NACK_TRANSMIT_COUNT; an id of nack_ids that is still tracked
\* goes on from its old count (and is deleted past NACK_TRANSMIT_COUNT), an
\* id that is not tracked, new or deleted before, starts at 1.
C39_NackBookkeeping ==
    \A m \in UUIDS :
        LET self == messengers[m]
            r == create_packet(self, now, RETRANSMISSION_TIMEOUT)
            after == r.self._sent_nack_ids
        IN  /\ DOMAIN self._sent_nack_ids \subseteq self.nack_ids
            /\ \A x \in DOMAIN self._sent_nack_ids :
                  self._sent_nack_ids[x] \in 1..NACK_TRANSMIT_COUNT
            /\ ~r.raised =>
                  /\ NacksTracked(r.self)
                  /\ \A x \in self.nack_ids :
                        IF x \in DOMAIN self._sent_nack_ids
                        THEN IF self._sent_nack_ids[x] < NACK_TRANSMIT_COUNT
                             THEN x \in DOMAIN after
                                  /\ after[x] = self._sent_nack_ids[x] + 1
                             ELSE x \notin DOMAIN after
                        ELSE x \in DOMAIN after /\ after[x] = 1

\* C39 witness: an id that went through NACK_TRANSMIT_COUNT + 1 packets and
\* was deleted is in nack_ids again, untracked, beside an id whose count
\* goes on.
C39_Witness ==
    \E m \in UUIDS : \E x, y \in 1..MaxRenackIds :
        /\ Cardinality(Emissions(m, x)) = NACK_TRANSMIT_COUNT + 1
        /\ StrId(x) \in messengers[m].nack_ids
        /\ StrId(x) \notin DOMAIN messengers[m]._sent_nack_ids
        /\ StrId(y) \in DOMAIN messengers[m]._sent_nack_ids
        /\ messengers[m]._sent_nack_ids[StrId(y)] > 1

---------------------------------------------------------------------------
(* The size of the Control block (SpecCap): the files of the peer's        *)
(* packets 1, 2, 3, ... are found truncated one after the other, faster    *)
(* than create_packet ages their ids out.                                  *)

MaxCapIds == 18

MaxCapPackets == 2

\* the packet ids m has had in nack_ids so far
CapSeen(m) ==
    {x.v : x \in messengers[m].nack_ids}
        \cup UNION {Range(packets[m][k].control.nack_ids) : k \in DOMAIN packets[m]}

\* the file of the peer's next packet is shorter than 4 bytes
FindNextShortFile(m) ==
    /\ Cardinality(CapSeen(m)) < MaxCapIds
    /\ messengers' = [messengers EXCEPT
                         ![m] = find_short_file(@, Cardinality(CapSeen(m)) + 1)]
    /\ UNCHANGED <<packets, now, threads, _outbox_lock, calls, folder, servers>>

\* m.create_packet(); the packet it returns is kept
CapCreatePacket(m) ==
    /\ Len(packets["A"]) + Len(packets["B"]) < MaxCapPackets
    /\ LET r == create_packet(messengers[m], now, RETRANSMISSION_TIMEOUT)
       IN  /\ messengers' = [messengers EXCEPT ![m] = r.self]
           /\ packets' = IF r.raised THEN packets
                         ELSE [packets EXCEPT ![m] = Append(@, r.packet)]
    /\ UNCHANGED <<now, threads, _outbox_lock, calls, folder, servers>>

NextCap ==
    \/ \E m \in UUIDS : FindNextShortFile(m)
    \/ \E m \in UUIDS : CapCreatePacket(m)

SpecCap == Init /\ [][NextCap]_vars

\* C40: create_packet is always enabled: in every reachable state
\* PACKET_HEADER_SIZE + control.size_bytes < PACKET_LIMIT_SIZE_BYTES for the
\* Control block create_packet builds, however many out-of-order message
\* ids and pending NACK ids it has to carry, so the size assertion never
\* fails.
C40_CreatePacketEnabled ==
    \A m \in UUIDS :
        create_packet_control(messengers[m]).total_size_bytes < PACKET_LIMIT_SIZE_BYTES

---------------------------------------------------------------------------
(* Retransmission (SpecRetx): every create_packet uses the default         *)
(* timeout, the clock runs past RETRANSMISSION_TIMEOUT, and calls records  *)
(* per Messenger whether each packet was passed to packet_send before the  *)
(* next create_packet (as Server._write_output_files does) and which       *)
(* outbox slots a NACK reset after how many create_packet calls.           *)

MaxRetxOutbox == 1

MaxRetxPackets == 3

MaxRetxTime == 5

\* the outbox slots of which the call cleared packet_id: a NACK was applied
NackedSlots(before, after) ==
    {i \in DOMAIN before.outbox :
        before.outbox[i].packet_id # None /\ after.outbox[i].packet_id = None}

RetxAppendOutboxData(m, data) ==
    /\ Len(messengers["A"].outbox) + Len(messengers["B"].outbox) < MaxRetxOutbox
    /\ messengers' = [messengers EXCEPT ![m] = append_outbox_data(@, data)]
    /\ UNCHANGED <<packets, now, threads, _outbox_lock, calls, folder, servers>>

\* m.create_packet() with the default retransmission_timeout
RetxCreatePacket(m) ==
    /\ Len(packets["A"]) + Len(packets["B"]) < MaxRetxPackets
    /\ LET r == create_packet(messengers[m], now, RETRANSMISSION_TIMEOUT)
       IN  /\ messengers' = [messengers EXCEPT ![m] = r.self]
           /\ packets' = IF r.raised THEN packets
                         ELSE [packets EXCEPT ![m] = Append(@, r.packet)]
           /\ calls' = IF r.raised THEN calls
                       ELSE [calls EXCEPT ![m].in_order = @ /\ calls[m].latest_sent,
                                          ![m].latest_sent = FALSE]
    /\ UNCHANGED <<now, threads, _outbox_lock, folder, servers>>

\* m.packet_send(p) for a packet p that m created
RetxPacketSend(m, k) ==
    /\ k \in DOMAIN packets[m]
    /\ messengers' = [messengers EXCEPT ![m] = packet_send(@, packets[m][k]).self]
    /\ calls' = [calls EXCEPT ![m].in_order = @ /\ k = Len(packets[m]),
                              ![m].latest_sent = @ \/ k = Len(packets[m])]
    /\ UNCHANGED <<packets, now, threads, _outbox_lock, folder, servers>>

\* the controller of m reads a file of the k-th packet of its peer
RetxTryReadInputFile(m, k, decoded) ==
    /\ k \in DOMAIN packets[Other(m)]
    /\ decoded \in Decodings(packets[Other(m)][k])
    /\ LET after == try_read_input_file(messengers[m], decoded, k)
       IN  /\ messengers' = [messengers EXCEPT ![m] = after]
           /\ calls' = [calls EXCEPT ![m].nacked =
                          @ \cup {[i |-> i, k |-> Len(packets[m])] :
                                     i \in NackedSlots(messengers[m], after)}]
    /\ UNCHANGED <<packets, now, threads, _outbox_lock, folder, servers>>

\* time passes between calls; the calls happen at time 0, one second before
\* RETRANSMISSION_TIMEOUT has elapsed, or at any second from then on
RetxTick ==
    /\ now < MaxRetxTime
    /\ now' = IF now + 1 < RETRANSMISSION_TIMEOUT - 1
              THEN RETRANSMISSION_TIMEOUT - 1 ELSE now + 1
    /\ UNCHANGED <<messengers, packets, threads, _outbox_lock, calls, folder, servers>>

NextRetx ==
    \/ \E m \in UUIDS, data \in Contents : RetxAppendOutboxData(m, data)
    \/ \E m \in UUIDS : RetxCreatePacket(m)
    \/ \E m \in UUIDS : \E k \in DOMAIN packets[m] : RetxPacketSend(m, k)
    \/ \E m \in UUIDS : \E k \in DOMAIN packets[Other(m)] :
          \E decoded \in Decodings(packets[Other(m)][k]) : RetxTryReadInputFile(m, k, decoded)
    \/ RetxTick

SpecRetx == Init /\ [][NextRetx]_vars

\* packet k of m carries the outbox message i
Carries(m, k, i) ==
    /\ k \in DOMAIN packets[m]
    /\ \E j \in DOMAIN packets[m][k].messages : packets[m][k].messages[j].message_id = i

\* packets k < l of m carry the same message less than
\* RETRANSMISSION_TIMEOUT apart
ResentEarly(m, k, l, i) ==
    /\ k < l
    /\ Carries(m, k, i) /\ Carries(m, l, i)
    /\ packets[m][l].header.packet_timestamp - packets[m][k].header.packet_timestamp
          < RETRANSMISSION_TIMEOUT

\* a NACK reset slot i of m between its k-th and l-th create_packet
NackedBetween(m, k, l, i) ==
    \E n \in calls[m].nacked : n.i = i /\ k <= n.k /\ n.k < l

---------------------------------------------------------------------------
(* Convergence (SpecConv): two Servers exchange packet files.  Each side   *)
(* appends one message of MULTIPART_LIMIT_SIZE_BYTES bytes and then short  *)
(* ones; the transport shows a reader the files of all the packets it has  *)
(* not read yet, truncated below 4 bytes at first and intact later, so     *)
(* every packet is delivered.  All calls fall within one second.           *)

MaxConvOutbox == 5

MaxConvPackets == 6

\* a single-part payload of the largest size
Big == [kind |-> "bytes", value |-> [i \in 1..MULTIPART_LIMIT_SIZE_BYTES |-> 120]]

\* the packets of the peer whose files m has not read (and deleted) yet
Pending(m) == DOMAIN packets[Other(m)] \ calls[m].read

\* what Packet.from_file makes of an intact file of packet p
Intact(p) == [raised |-> FALSE, packet |-> p]

RECURSIVE read_input_files(_, _, _)
\* Server._try_read_input_files over the intact files of the packets ks
read_input_files(self, peer_packets, ks) ==
    IF ks = <<>> THEN self
    ELSE read_input_files(try_read_input_file(self, Intact(peer_packets[Head(ks)]), Head(ks)),
                          peer_packets, Tail(ks))

\* Server._write_output_files for one messenger: create_packet, then
\* packet_send of the packet written
write_output_file(self, current_timestamp) ==
    LET r == create_packet(self, current_timestamp, RETRANSMISSION_TIMEOUT)
    IN  IF r.raised THEN r
        ELSE [r EXCEPT !.self = packet_send(r.self, r.packet).self]

\* Server.run_once for one messenger: _find_input_files and
\* _try_read_input_files over the files of the packets ks of the peer, all
\* shorter than 4 bytes or all intact, then _write_output_files
run_once(self, peer_packets, ks, short, current_timestamp) ==
    write_output_file(
        IF short THEN [self EXCEPT !.nack_ids = @ \cup {StrId(ks[i]) : i \in DOMAIN ks}]
        ELSE read_input_files(self, peer_packets, ks),
        current_timestamp)

\* a client appends its MaxConvOutbox messages in one burst: no Server runs
\* and the other client does not start while a burst is under way
InBurst(m) == 0 < Len(Outbox(m)) /\ Len(Outbox(m)) < MaxConvOutbox

ConvAppendOutboxData(m) ==
    /\ Len(Outbox(m)) < MaxConvOutbox
    /\ ~InBurst(Other(m))
    /\ messengers' = [messengers EXCEPT ![m] =
          append_outbox_data(@, IF Len(Outbox(m)) = 0 THEN Big ELSE Hello)]
    /\ UNCHANGED <<packets, now, threads, _outbox_lock, calls, folder, servers>>

\* the Server of m runs once; the files it finds are truncated only while
\* it has read none and holds no NACK
RunOnce(m, short) ==
    /\ \A u \in UUIDS : ~InBurst(u)
    /\ Len(packets[m]) < MaxConvPackets
    /\ short => (Pending(m) # {} /\ calls[m].read = {} /\ messengers[m].nack_ids = {})
    /\ LET r == run_once(messengers[m], packets[Other(m)], SortedSeq(Pending(m)), short, now)
       IN  /\ messengers' = [messengers EXCEPT ![m] = r.self]
           /\ packets' = IF r.raised THEN packets
                         ELSE [packets EXCEPT ![m] = Append(@, r.packet)]
    /\ calls' = IF short THEN calls ELSE [calls EXCEPT ![m].read = @ \cup Pending(m)]
    /\ UNCHANGED <<now, threads, _outbox_lock, folder, servers>>

NextConv ==
    \/ \E m \in UUIDS : ConvAppendOutboxData(m)
    \/ \E m \in UUIDS, short \in BOOLEAN : RunOnce(m, short)

SpecConv == Init /\ [][NextConv]_vars

\* the Messengers once each Server has read the intact files of the packets
\* it has not read yet
Delivered ==
    [u \in UUIDS |->
        read_input_files(messengers[u], packets[Other(u)], SortedSeq(Pending(u)))]

\* one more round trip at time t: A writes a packet that B reads intact,
\* then B writes one that A reads intact
Exchange(ms, t) ==
    LET wa == write_output_file(ms["A"], t)
        b1 == try_read_input_file(ms["B"], Intact(wa.packet), wa.packet.header.packet_id)
        wb == write_output_file(b1, t)
        a1 == try_read_input_file(wa.self, Intact(wb.packet), wb.packet.header.packet_id)
    IN  [raised |-> wa.raised \/ wb.raised,
         ms |-> [u \in UUIDS |-> IF u = "A" THEN a1 ELSE wb.self],
         sent |-> Len(wa.packet.messages) + Len(wb.packet.messages)]

\* with every packet delivered no NACK is left, and a further round trip,
\* now or RETRANSMISSION_TIMEOUT later, carries no message and leaves every
\* outbox and inbox item as it is: further rounds repeat it
Quiescent(ms) ==
    /\ \A m \in UUIDS :
          /\ ms[m].nack_ids = {}
          /\ DOMAIN ms[m]._sent_nack_ids = {}
    /\ \A t \in {now, now + RETRANSMISSION_TIMEOUT} :
          LET e == Exchange(ms, t)
          IN  /\ ~e.raised
              /\ e.sent = 0
              /\ \A m \in UUIDS :
                    /\ e.ms[m].outbox = ms[m].outbox
                    /\ e.ms[m].inbox = ms[m].inbox
                    /\ e.ms[m].nack_ids = {}

\* C1, for the states from which further rounds change nothing: once the
\* appends have stopped and every packet has been delivered, the rounds
\* reach a state where is_synchronized is true on both sides, so a state
\* that further rounds only repeat is such a state.
C1_QuiescentIsSynchronized ==
    Quiescent(Delivered) => \A m \in UUIDS : is_synchronized(Delivered[m])

---------------------------------------------------------------------------
(* Misaddressed packets (SpecStray): packet_send and packet_receive are    *)
(* handed the packets of the pair as they are, and the same packets under  *)
(* the uuids of another pair.  calls records the last call that raised.    *)

MaxStrayOutbox == 1

MaxStrayPackets == 2

\* a uuid of another pair of Messengers
Strangers == {"C"}

\* the packet p as a file found under another sender or recipient uuid
Readdress(p, sender_uuid, recipient_uuid) ==
    [p EXCEPT !.header.sender_uuid = sender_uuid,
              !.header.recipient_uuid = recipient_uuid]

\* which of the two uuids of a packet differs from the expected one
Mismatched(sender_ok, recipient_ok) ==
    IF ~sender_ok /\ ~recipient_ok THEN "both"
    ELSE IF ~sender_ok THEN "sender_uuid"
    ELSE IF ~recipient_ok THEN "recipient_uuid"
    ELSE ""

StrayAppendOutboxData(m, data) ==
    /\ Len(messengers["A"].outbox) + Len(messengers["B"].outbox) < MaxStrayOutbox
    /\ messengers' = [messengers EXCEPT ![m] = append_outbox_data(@, data)]
    /\ UNCHANGED <<packets, now, threads, _outbox_lock, calls, folder, servers>>

StrayCreatePacket(m) ==
    /\ Len(packets["A"]) + Len(packets["B"]) < MaxStrayPackets
    /\ LET r == create_packet(messengers[m], now, RETRANSMISSION_TIMEOUT)
       IN  /\ messengers' = [messengers EXCEPT ![m] = r.self]
           /\ packets' = IF r.raised THEN packets
                         ELSE [packets EXCEPT ![m] = Append(@, r.packet)]
    /\ UNCHANGED <<now, threads, _outbox_lock, calls, folder, servers>>

\* m.packet_send(p): p is a packet m created, or any packet under uuids
\* that are not those of m and its peer
StrayPacketSend(m, owner, k, sender_uuid, recipient_uuid) ==
    /\ k \in DOMAIN packets[owner]
    /\ owner = m \/ sender_uuid # m \/ recipient_uuid # Other(m)
    /\ LET r == packet_send(messengers[m],
                            Readdress(packets[owner][k], sender_uuid, recipient_uuid))
       IN  /\ messengers' = [messengers EXCEPT ![m] = r.self]
           /\ calls' = IF r.raised
                       THEN [calls EXCEPT ![m].raised =
                               [op |-> "packet_send",
                                mismatched |-> Mismatched(sender_uuid = m,
                                                          recipient_uuid = Other(m))]]
                       ELSE calls
    /\ UNCHANGED <<packets, now, threads, _outbox_lock, folder, servers>>

\* m.packet_receive(p): p is a packet the peer of m created, or any packet
\* under uuids that are not those of the peer and m
StrayPacketReceive(m, owner, k, sender_uuid, recipient_uuid) ==
    /\ k \in DOMAIN packets[owner]
    /\ owner = Other(m) \/ sender_uuid # Other(m) \/ recipient_uuid # m
    /\ LET r == packet_receive(messengers[m],
                               Readdress(packets[owner][k], sender_uuid, recipient_uuid))
       IN  /\ messengers' = [messengers EXCEPT ![m] = r.self]
           /\ calls' = IF r.raised
                       THEN [calls EXCEPT ![m].raised =
                               [op |-> "packet_receive",
                                mismatched |-> Mismatched(sender_uuid = Other(m),
                                                          recipient_uuid = m)]]
                       ELSE calls
    /\ UNCHANGED <<packets, now, threads, _outbox_lock, folder, servers>>

NextStray ==
    \/ \E m \in UUIDS, data \in Contents : StrayAppendOutboxData(m, data)
    \/ \E m \in UUIDS : StrayCreatePacket(m)
    \/ \E m, owner \in UUIDS : \E k \in DOMAIN packets[owner] :
          \E sender_uuid, recipient_uuid \in UUIDS \cup Strangers :
              StrayPacketSend(m, owner, k, sender_uuid, recipient_uuid)
    \/ \E m, owner \in UUIDS : \E k \in DOMAIN packets[owner] :
          \E sender_uuid, recipient_uuid \in UUIDS \cup Strangers :
              StrayPacketReceive(m, owner, k, sender_uuid, recipient_uuid)

SpecStray == Init /\ [][NextStray]_vars

\* C20: packet_send with a packet whose sender_uuid != self_uuid or
\* recipient_uuid != other_uuid, and packet_receive with a packet whose
\* sender_uuid != other_uuid or recipient_uuid != self_uuid, raise an error,
\* and a call that raises changes no field of the Messenger.
C20_ViolationLeavesState ==
    /\ [](\A m, owner \in UUIDS : \A k \in DOMAIN packets[owner] :
             \A sender_uuid, recipient_uuid \in UUIDS \cup Strangers :
                 LET p == Readdress(packets[owner][k], sender_uuid, recipient_uuid)
                 IN  /\ (sender_uuid # m \/ recipient_uuid # Other(m))
                            => packet_send(messengers[m], p).raised
                     /\ (sender_uuid # Other(m) \/ recipient_uuid # m)
                            => packet_receive(messengers[m], p).raised)
    /\ [][\A m \in UUIDS :
             calls'[m].raised # calls[m].raised => messengers'[m] = messengers[m]]_vars

\* C20 witness: a Messenger that has created a packet carrying its message
\* and has not passed it to packet_send was handed that packet under a
\* foreign recipient_uuid, and its peer was handed it under a foreign
\* sender_uuid.
C20_Witness ==
    \E m \in UUIDS :
        /\ Len(Outbox(m)) = 1
        /\ Len(packets[m]) >= 1 /\ Len(packets[m][1].messages) = 1
        /\ Outbox(m)[1].packet_id = None
        /\ calls[m].raised = [op |-> "packet_send", mismatched |-> "recipient_uuid"]
        /\ calls[Other(m)].raised = [op |-> "packet_receive", mismatched |-> "sender_uuid"]
        /\ Len(Inbox(Other(m))) = 0

---------------------------------------------------------------------------
(* Delivered content (SpecContent): a client passes payloads of every kind *)
(* to append_outbox_data, one call after the other, while packets are      *)
(* created, sent and read; a packet may be created between two fragments   *)
(* of a multipart payload.  calls records the payloads in call order.      *)

MaxContentCalls == 1

MaxContentPackets == 2

\* single-part payloads: '', 'hi', a two-byte character, b'', b'\x00', {}
\* and {"a": 1}
ShortPayloads ==
    {[kind |-> "str", value |-> <<>>],
     Hello,
     [kind |-> "str", value |-> <<233>>],
     [kind |-> "bytes", value |-> <<>>],
     [kind |-> "bytes", value |-> <<0>>],
     [kind |-> "dict", value |-> <<>>],
     [kind |-> "dict", value |-> <<<<(<<97>>), 1>>>>]}

\* a str of 22 bytes whose two-byte character lies across the first cut
LongText ==
    [kind |-> "str",
     value |-> [i \in 1..(MULTIPART_LIMIT_SIZE_BYTES + 1) |->
                  IF i = MULTIPART_LIMIT_SIZE_BYTES THEN 233 ELSE 120]]

\* bytes cut in three fragments
LongBytes ==
    [kind |-> "bytes", value |-> [i \in 1..(2 * MULTIPART_LIMIT_SIZE_BYTES + 1) |-> i]]

\* a dict whose JSON text is longer than MULTIPART_LIMIT_SIZE_BYTES
LongDict ==
    [kind |-> "dict",
     value |-> <<<<[i \in 1..MULTIPART_LIMIT_SIZE_BYTES |-> 107], 1>>, <<(<<97>>), 2>>>>]

LongPayloads == {LongText, LongBytes, LongDict}

\* thread t enters m.append_outbox_data(data) while no other call runs
ContentCall(t, m, data) ==
    /\ \A u \in Threads : threads[u].pc = "idle"
    /\ Len(calls["A"].appended) + Len(calls["B"].appended) < MaxContentCalls
    /\ LET message == from_content(Len(messengers[m].outbox) + 1, data)
       IN  threads' = [threads EXCEPT ![t] =
               [pc |-> IF Len(message.binary_data) <= MULTIPART_LIMIT_SIZE_BYTES
                       THEN "single_lock" ELSE "loop",
                m |-> m, message |-> message, _cursor |-> 0,
                _previous_message_id |-> 0, _message_part |-> NoMessage]]
    /\ calls' = [calls EXCEPT ![m].appended = Append(@, data)]
    /\ UNCHANGED <<messengers, packets, now, _outbox_lock, folder, servers>>

\* m.create_packet() with the default retransmission_timeout
ContentCreatePacket(m) ==
    /\ Len(packets["A"]) + Len(packets["B"]) < MaxContentPackets
    /\ LET r == create_packet(messengers[m], now, RETRANSMISSION_TIMEOUT)
       IN  /\ messengers' = [messengers EXCEPT ![m] = r.self]
           /\ packets' = IF r.raised THEN packets
                         ELSE [packets EXCEPT ![m] = Append(@, r.packet)]
    /\ UNCHANGED <<now, threads, _outbox_lock, calls, folder, servers>>

NextContent ==
    \/ \E t \in Threads, m \in UUIDS, data \in ShortPayloads \cup LongPayloads :
          ContentCall(t, m, data)
    \/ \E t \in Threads : Acquire(t)
    \/ \E t \in Threads : SingleSetId(t)
    \/ \E t \in Threads : SingleAppend(t)
    \/ \E t \in Threads : LoopStep(t)
    \/ \E t \in Threads : PartSetId(t)
    \/ \E t \in Threads : PartAppend(t)
    \/ \E t \in Threads : Check(t)
    \/ \E m \in UUIDS : ContentCreatePacket(m)
    \/ \E m \in UUIDS : \E k \in DOMAIN packets[m] : PacketSend(m, k)
    \/ \E m \in UUIDS : \E k \in DOMAIN packets[Other(m)] :
          \E decoded \in Decodings(packets[Other(m)][k]) : TryReadInputFile(m, k, decoded)

SpecContent == InitAppend /\ [][NextContent]_vars

\* the payload whose last (or only) message has the id i in the outbox of
\* m: calls are served in order and each ends with one message that is no
\* MULTIPART_FRAGMENT
SentContent(m, i) ==
    calls[m].appended[
        Cardinality({j \in 1..i :
            Outbox(m)[j].message.content_type # ContentType_MULTIPART_FRAGMENT})]

RECURSIVE ChainStored(_, _)
\* message i and every fragment before it on its message_prev chain are
\* stored in the inbox
ChainStored(inbox, i) ==
    /\ inbox[i].message # NoMessage
    /\ inbox[i].message.message_prev = 0 \/ ChainStored(inbox, inbox[i].message.message_prev)

\* inbox[i] holds a whole single-part message
SinglePart(inbox, i) ==
    /\ inbox[i].message # NoMessage
    /\ inbox[i].message.message_prev = 0
    /\ inbox[i].message.content_type # ContentType_MULTIPART_FRAGMENT

\* inbox[i] holds the terminal fragment of a multipart payload
TerminalFragment(inbox, i) ==
    /\ inbox[i].message # NoMessage
    /\ inbox[i].message.message_prev # 0
    /\ inbox[i].message.content_type # ContentType_MULTIPART_FRAGMENT

\* C14: for every payload longer than MULTIPART_LIMIT_SIZE_BYTES of every
\* content type, once all its fragments are stored in the receiver's inbox,
\* the content of the terminal fragment's inbox message equals the payload
\* passed to append_outbox_data.
C14_MultipartReconstruction ==
    \A m \in UUIDS : \A i \in DOMAIN Inbox(m) :
        (TerminalFragment(Inbox(m), i) /\ ChainStored(Inbox(m), i))
            => Message_content(Inbox(m), Inbox(m)[i].message) = SentContent(Other(m), i)

\* C14 witness: the three fragments of a payload are stored, the last one
\* from an earlier packet than the first two.
C14_Witness ==
    \E m \in UUIDS :
        /\ Len(Inbox(m)) = 3
        /\ TerminalFragment(Inbox(m), 3) /\ ChainStored(Inbox(m), 3)
        /\ Len(packets[Other(m)]) = 2
        /\ Carries(Other(m), 2, 3) /\ ~Carries(Other(m), 1, 3)
        /\ Message_content(Inbox(m), Inbox(m)[3].message) = LongBytes

\* C34: multipart linking does not depend on the order in which the packets
\* of a chain are received.  A stored fragment with message_prev > 0 is
\* linked to the inbox message with that id, and has left
\* _inbox_unlinked_previous_messages, exactly when that message is stored;
\* so once every fragment of a chain is stored every link is made and no
\* entry of the chain is left.  While an earlier fragment is missing the
\* content of the terminal fragment is None.
C34_LinkingAnyOrder ==
    /\ \A m \in UUIDS : \A i \in DOMAIN Inbox(m) :
          (Inbox(m)[i].message # NoMessage /\ Inbox(m)[i].message.message_prev > 0) =>
              LET message == Inbox(m)[i].message
                  entry == <<i, message.message_prev>>
              IN  IF Inbox(m)[message.message_prev].message # NoMessage
                  THEN /\ message.previous_message = message.message_prev
                       /\ entry \notin messengers[m]._inbox_unlinked_previous_messages
                  ELSE /\ message.previous_message = 0
                       /\ entry \in messengers[m]._inbox_unlinked_previous_messages
    /\ \A m \in UUIDS :
          \A e \in messengers[m]._inbox_unlinked_previous_messages :
              /\ Inbox(m)[e[1]].message # NoMessage
              /\ Inbox(m)[e[1]].message.message_prev = e[2]
    /\ \A m \in UUIDS : \A i \in DOMAIN Inbox(m) :
          (TerminalFragment(Inbox(m), i) /\ ~ChainStored(Inbox(m), i))
              => Message_content(Inbox(m), Inbox(m)[i].message) = NoContent

\* C34 witness: the packet with fragments 2 and 3 of a payload was received
\* before the packet with fragment 1: fragment 3 is linked to fragment 2,
\* fragment 2 waits for fragment 1, and the content of fragment 3 is None.
C34_Witness ==
    \E m \in UUIDS :
        /\ Len(Inbox(m)) = 3
        /\ Inbox(m)[1].message = NoMessage
        /\ TerminalFragment(Inbox(m), 3)
        /\ Inbox(m)[3].message.previous_message = 2
        /\ messengers[m]._inbox_unlinked_previous_messages = {<<2, 1>>}
        /\ Message_content(Inbox(m), Inbox(m)[3].message) = NoContent

---------------------------------------------------------------------------
(* The packet codec: Packet.to_bytes and Packet.from_file.  A file body is *)
(* a sequence of cells, one per encoded field (a message payload has one   *)
(* cell per byte); v is the number the cell encodes, h what a digest or a  *)
(* token is computed from.  blake2b is a perfect hash of the hashed cells  *)
(* and of its key.  A datetime is [s, us, tz]: seconds since the epoch,    *)
(* microseconds, and "utc" or "naive".                                     *)

\* the blake2b digest of cells under key (0 when the hash has no key)
Digest(cells, key) == [v |-> key, h |-> [i \in DOMAIN cells |-> cells[i].v]]

\* key_encapsulation.encrypt_key: only secret_key opens the token
encrypt_key(hash_key, secret_key) == [v |-> hash_key, h |-> <<secret_key>>]

\* coerce.from_datetime32: round(timestamp.timestamp()), halves to the even
\* second, packed as a signed 32-bit integer (struct.error beyond it); a
\* naive datetime is taken as UTC
from_datetime32(timestamp) ==
    LET up == \/ 2 * timestamp.us > 1000000
              \/ 2 * timestamp.us = 1000000 /\ timestamp.s % 2 = 1
    IN  IF up /\ timestamp.s = 2147483647 THEN [raised |-> TRUE, v |-> 0]
        ELSE [raised |-> FALSE, v |-> IF up THEN timestamp.s + 1 ELSE timestamp.s]

\* Message.to_bytes without the message_prev of a fragment
Message_to_bytes_NoPrev(msg, hash_key) ==
    LET data == [i \in DOMAIN msg.binary_data |-> [v |-> msg.binary_data[i], h |-> <<>>]]
        fields == <<[v |-> msg.message_id, h |-> <<>>],
                    [v |-> 0, h |-> <<>>],
                    [v |-> Len(msg.binary_data), h |-> <<>>],
                    [v |-> msg.content_type, h |-> <<>>],
                    Digest(data, 0)>>
    IN  fields \o <<Digest(fields, hash_key)>> \o data

\* Message.to_bytes: MessageHeader.to_bytes + binary_data
Message_to_bytes(msg, hash_key) ==
    LET data == [i \in DOMAIN msg.binary_data |-> [v |-> msg.binary_data[i], h |-> <<>>]]
        fields == <<[v |-> msg.message_id, h |-> <<>>],
                    [v |-> msg.message_prev, h |-> <<>>],
                    [v |-> Len(msg.binary_data), h |-> <<>>],
                    [v |-> msg.content_type, h |-> <<>>],
                    Digest(data, 0)>>
    IN  fields \o <<Digest(fields, hash_key)>> \o data

RECURSIVE MessagesToBytes(_, _)
\* for _msg in self.messages: out.extend(_msg.to_bytes(self.header.hash_key))
MessagesToBytes(messages, hash_key) ==
    IF messages = <<>> THEN <<>>
    ELSE Message_to_bytes(Head(messages), hash_key) \o MessagesToBytes(Tail(messages), hash_key)

\* Packet.to_bytes; hash_key is header.hash_key.  The asserts raise, and
\* so does the packing of a timestamp beyond the signed 32 bits.
Packet_to_bytes(packet, hash_key, secret_key) ==
    LET word(n) == [v |-> n, h |-> <<>>]
        from_uuid(u) == IF u = "A" THEN 1 ELSE IF u = "B" THEN 2 ELSE 3
        fields == <<word(from_uuid(packet.header.sender_uuid)),
                    word(from_uuid(packet.header.recipient_uuid)),
                    word(packet.header.packet_id),
                    word(packet.header.num_messages),
                    word(from_datetime32(packet.header.packet_timestamp).v),
                    word(2),
                    encrypt_key(hash_key, secret_key)>>
        c == packet.control
        words == <<word(c.sender_clock_sender), word(c.sender_clock_recipient),
                   word(Len(c.sender_clock_out_of_order))>>
                 \o [i \in DOMAIN c.sender_clock_out_of_order |->
                       word(c.sender_clock_out_of_order[i])]
                 \o <<word(Len(c.nack_ids))>>
                 \o [i \in DOMAIN c.nack_ids |-> word(c.nack_ids[i])]
                 \o <<word(c.recipient_clock_sender)>>
    IN  IF \/ Len(packet.messages) # packet.header.num_messages
           \/ packet.control = NoControl
           \/ from_datetime32(packet.header.packet_timestamp).raised
        THEN [raised |-> TRUE, file |-> <<>>]
        ELSE [raised |-> FALSE,
              file |-> fields \o <<Digest(fields, hash_key)>>
                       \o words \o <<Digest(words, 0)>>
                       \o MessagesToBytes(packet.messages, hash_key)]

\* PacketHeader.from_bytes of the cells read for the header
PacketHeader_from_bytes(cells, secret_key) ==
    LET to_uuid(n) == IF n = 1 THEN "A" ELSE IF n = 2 THEN "B" ELSE "C"
    IN  IF \/ Len(cells) # 8
           \/ cells[7].h # <<secret_key>>
           \/ cells[8] # Digest(SubSeq(cells, 1, 7), cells[7].v)
        THEN [raised |-> TRUE, header |-> NoPacket.header, hash_key |-> 0]
        ELSE [raised |-> FALSE,
              header |-> PacketHeader(to_uuid(cells[1].v), to_uuid(cells[2].v),
                                      cells[3].v, cells[4].v,
                                      [s |-> cells[5].v, us |-> 0, tz |-> "utc"]),
              hash_key |-> cells[7].v]

\* Control.from_file reading from the cell after pos; a read past the end
\* of the file returns b'', which decodes to None
Control_from_file(file, pos) ==
    LET read_word(i) == IF i <= Len(file) THEN file[i].v ELSE None
        _n_sacks == read_word(pos + 3)
        q == pos + 3 + (IF _n_sacks = None THEN 0 ELSE _n_sacks)
        _n_nacks == read_word(q + 1)
        r == q + 1 + (IF _n_nacks = None THEN 0 ELSE _n_nacks)
    IN  IF \/ _n_sacks = None
           \/ _n_nacks = None
           \/ r + 2 > Len(file)
           \/ file[r + 2] # Digest(SubSeq(file, pos + 1, r + 1), 0)
        THEN [raised |-> TRUE, control |-> NoControl, pos |-> pos]
        ELSE [raised |-> FALSE,
              control |-> [sender_clock_sender |-> read_word(pos + 1),
                           sender_clock_recipient |-> read_word(pos + 2),
                           sender_clock_out_of_order |->
                               [j \in 1..(q - pos - 3) |-> read_word(pos + 3 + j)],
                           nack_ids |-> [j \in 1..(r - q - 1) |-> read_word(q + 1 + j)],
                           recipient_clock_sender |-> read_word(r + 1)],
              pos |-> r + 2]

\* Message.from_file without the test of content_hash
Message_from_file_NoContentHash(file, pos, hash_key) ==
    LET _header == SubSeq(file, pos + 1, pos + 6)
        end == IF pos + 6 + _header[3].v > Len(file) THEN Len(file) ELSE pos + 6 + _header[3].v
        data == SubSeq(file, pos + 7, end)
    IN  IF pos + 6 > Len(file) \/ _header[6] # Digest(SubSeq(_header, 1, 5), hash_key)
        THEN [raised |-> TRUE, message |-> NoMessage, pos |-> pos]
        ELSE [raised |-> FALSE,
              message |-> [message_id |-> _header[1].v,
                           message_prev |-> _header[2].v,
                           content_type |-> _header[4].v,
                           binary_data |-> [i \in DOMAIN data |-> data[i].v],
                           previous_message |-> 0],
              pos |-> end]

\* Message.from_file: the header (its length and its keyed digest are
\* checked), then content_length bytes against content_hash
Message_from_file(file, pos, hash_key) ==
    LET _header == SubSeq(file, pos + 1, pos + 6)
        end == IF pos + 6 + _header[3].v > Len(file) THEN Len(file) ELSE pos + 6 + _header[3].v
        data == SubSeq(file, pos + 7, end)
    IN  IF pos + 6 > Len(file) \/ _header[6] # Digest(SubSeq(_header, 1, 5), hash_key)
        THEN [raised |-> TRUE, message |-> NoMessage, pos |-> pos]
        ELSE IF Digest(data, 0) # _header[5]
        THEN [raised |-> TRUE, message |-> NoMessage, pos |-> end]
        ELSE [raised |-> FALSE,
              message |-> [message_id |-> _header[1].v,
                           message_prev |-> _header[2].v,
                           content_type |-> _header[4].v,
                           binary_data |-> [i \in DOMAIN data |-> data[i].v],
                           previous_message |-> 0],
              pos |-> end]

RECURSIVE ReadMessages(_, _, _, _)
\* the loop over range(num_messages) of Packet.from_file: the messages
\* parsed before the first one that raises
ReadMessages(file, pos, hash_key, n) ==
    IF n = 0 THEN [messages |-> <<>>, pos |-> pos]
    ELSE LET m == Message_from_file(file, pos, hash_key)
         IN  IF m.raised THEN [messages |-> <<>>, pos |-> m.pos]
             ELSE LET rest == ReadMessages(file, m.pos, hash_key, n - 1)
                  IN  [messages |-> <<m.message>> \o rest.messages, pos |-> rest.pos]

\* Packet.from_file; pos is how far the file was read
Packet_from_file(file, secret_key) ==
    LET h == PacketHeader_from_bytes(SubSeq(file, 1, IF Len(file) < 8 THEN Len(file) ELSE 8),
                                     secret_key)
        c == Control_from_file(file, 8)
        ms == ReadMessages(file, c.pos, h.hash_key, h.header.num_messages)
    IN  IF h.raised
        THEN [raised |-> TRUE, packet |-> NoPacket, hash_key |-> 0, pos |-> 0]
        ELSE IF c.raised
        THEN [raised |-> FALSE, packet |-> Packet(h.header, NoControl, <<>>),
              hash_key |-> h.hash_key, pos |-> 8]
        ELSE [raised |-> FALSE, packet |-> Packet(h.header, c.control, ms.messages),
              hash_key |-> h.hash_key, pos |-> ms.pos]

\* Packet.from_bytes: from_file, then "extra unexpected data"
Packet_from_bytes(binary_data, secret_key) ==
    LET out == Packet_from_file(binary_data, secret_key)
    IN  IF ~out.raised /\ out.pos < Len(binary_data)
        THEN [out EXCEPT !.raised = TRUE, !.packet = NoPacket]
        ELSE out

---------------------------------------------------------------------------
(* Packet files (SpecCodec): a packet is encoded into the file named after *)
(* it, the transport changes one cell of the file or cuts the file short,  *)
(* and the file is decoded.  calls records the keys of the encoding.       *)

MaxDamage == 1

\* packet_timestamp values: whole and half seconds, aware and naive, and
\* half a second before the first second beyond the signed 32 bits
CodecTimestamps ==
    {[s |-> 0, us |-> 0, tz |-> "utc"],
     [s |-> 1, us |-> 500000, tz |-> "utc"],
     [s |-> 1, us |-> 0, tz |-> "naive"],
     [s |-> 2147483647, us |-> 500000, tz |-> "utc"]}

\* Control blocks without and with out-of-order ids and NACKs
CodecControls ==
    {[sender_clock_sender |-> 3, sender_clock_recipient |-> 2,
      sender_clock_out_of_order |-> <<>>, nack_ids |-> <<>>, recipient_clock_sender |-> 1],
     [sender_clock_sender |-> 6, sender_clock_recipient |-> 2,
      sender_clock_out_of_order |-> <<4, 5>>, nack_ids |-> <<7>>, recipient_clock_sender |-> 1]}

\* message lists: none, one, three of the three content types (one of them
\* empty), a fragment that names its predecessor, and a message whose
\* previous_message is linked
CodecMessages ==
    {<<>>,
     <<from_content(1, Hello)>>,
     <<from_content(1, Hello), from_content(2, [kind |-> "bytes", value |-> <<>>]),
       from_content(3, [kind |-> "dict", value |-> <<<<(<<97>>), 1>>>>])>>,
     <<[from_content(2, Hello) EXCEPT !.message_prev = 1]>>,
     <<[from_content(2, Hello) EXCEPT !.message_prev = 1, !.previous_message = 1]>>}

SecretKeys == {1, 2}

\* PacketHeader.filename, as the triple its stem splits into
Filename(header) == <<header.sender_uuid, header.recipient_uuid, header.packet_id>>

\* m encodes a packet of its own into the file of that name
EncodePacket(m, packet_timestamp, control, messages, hash_key, secret_key) ==
    /\ packets["A"] = <<>> /\ packets["B"] = <<>>
    /\ LET packet == Packet(PacketHeader(m, Other(m), 1, Len(messages), packet_timestamp),
                            control, messages)
           out == Packet_to_bytes(packet, hash_key, secret_key)
       IN  /\ packets' = [packets EXCEPT ![m] = <<packet>>]
           /\ folder' = IF out.raised THEN folder
                        ELSE (Filename(packet.header) :>
                                 [prefix |-> 4, sentinel |-> 4 + Len(out.file),
                                  body |-> out.file]) @@ folder
    /\ calls' = [calls EXCEPT ![m].keys =
                    Append(@, [hash_key |-> hash_key, secret_key |-> secret_key])]
    /\ UNCHANGED <<messengers, now, threads, _outbox_lock, servers>>

\* what the file at path held when it was written
Pristine(path) ==
    Packet_to_bytes(packets[path[1]][1], calls[path[1]].keys[1].hash_key,
                    calls[path[1]].keys[1].secret_key).file

\* the number of cells of the file that are not as they were written
Damage(path) ==
    LET written == Pristine(path)
    IN  Cardinality({i \in DOMAIN written :
                        i > Len(folder[path].body) \/ folder[path].body[i] # written[i]})

\* the transport flips bits of cell i of a file it delivers whole
DamageCell(path, i) ==
    /\ path \in DOMAIN folder
    /\ Damage(path) < MaxDamage
    /\ Len(folder[path].body) = Len(Pristine(path))
    /\ i \in DOMAIN folder[path].body
    /\ folder' = [folder EXCEPT ![path].body[i] = [v |-> @.v + 1, h |-> @.h \o <<0>>]]
    /\ UNCHANGED <<messengers, packets, now, threads, _outbox_lock, calls, servers>>

\* the transport delivers only the first n cells of a file it did not flip
TruncateFile(path, n) ==
    /\ path \in DOMAIN folder
    /\ folder[path].body = Pristine(path)
    /\ n < Len(folder[path].body)
    /\ folder' = [folder EXCEPT ![path].body = SubSeq(@, 1, n)]
    /\ UNCHANGED <<messengers, packets, now, threads, _outbox_lock, calls, servers>>

NextCodec ==
    \/ \E m \in UUIDS, packet_timestamp \in CodecTimestamps, control \in CodecControls,
          messages \in CodecMessages, hash_key \in {1, 2}, secret_key \in SecretKeys :
          EncodePacket(m, packet_timestamp, control, messages, hash_key, secret_key)
    \/ \E path \in DOMAIN folder : \E i \in DOMAIN folder[path].body : DamageCell(path, i)
    \/ \E path \in DOMAIN folder : \E n \in 0..Len(folder[path].body) : TruncateFile(path, n)

SpecCodec == Init /\ [][NextCodec]_vars

\* the first cell of the file that is not as it was written, one past the
\* end of the written file when there is none
FirstDamaged(path) ==
    LET written == Pristine(path)
    IN  Min({i \in DOMAIN written :
                i > Len(folder[path].body) \/ folder[path].body[i] # written[i]}
            \cup {Len(written) + 1})

\* the number of messages of the packet that end before cell d of its file
WholeMessages(packet, d) ==
    Cardinality({k \in DOMAIN packet.messages :
        8 + ControlSize(packet.control) \div 4 - 1
          + SumSizes(SubSeq(packet.messages, 1, k))
          - k * (MESSAGE_HEADER_SIZE - 6) < d})

\* C22: decoding a packet file whose header is intact returns a Packet with
\* the packet_id of the file in every case; with a damaged Control block it
\* returns control = None and no messages; with Control intact and the k-th
\* message the first damaged one it returns exactly the first k-1 messages
\* in their order; with a damaged header the decoding raises.
C22_PartialPacketRecovery ==
    \A path \in DOMAIN folder :
        LET packet == packets[path[1]][1]
            d == FirstDamaged(path)
            out == Packet_from_file(folder[path].body, calls[path[1]].keys[1].secret_key)
            k == WholeMessages(packet, d)
        IN  IF d <= 8 THEN out.raised
            ELSE /\ ~out.raised
                 /\ out.packet.header.packet_id = packet.header.packet_id
                 /\ IF d <= 8 + ControlSize(packet.control) \div 4 - 1
                    THEN out.packet.control = NoControl /\ out.packet.messages = <<>>
                    ELSE /\ out.packet.control = packet.control
                         /\ out.packet.messages =
                               [j \in 1..k |->
                                  [packet.messages[j] EXCEPT !.previous_message = 0]]

\* C22 witness: Control is intact and the second of three messages is the
\* first damaged one; the decoding returns the first message only.
C22_Witness ==
    \E path \in DOMAIN folder :
        LET packet == packets[path[1]][1]
            out == Packet_from_file(folder[path].body, calls[path[1]].keys[1].secret_key)
        IN  /\ Len(packet.messages) = 3
            /\ WholeMessages(packet, FirstDamaged(path)) = 1
            /\ Len(folder[path].body) = Len(Pristine(path))
            /\ ~out.raised
            /\ out.packet.control = packet.control
            /\ out.packet.messages = <<packet.messages[1]>>

\* C23 as stated: for every valid Packet P and secret key k,
\* Packet.from_bytes(P.to_bytes(k), k) == P.
C23_RoundTrip ==
    \A path \in DOMAIN folder :
        folder[path].body = Pristine(path) =>
            LET out == Packet_from_bytes(folder[path].body, calls[path[1]].keys[1].secret_key)
            IN  ~out.raised /\ out.packet = packets[path[1]][1]

\* C23 amended: the same for the packets whose packet_timestamp is a whole
\* second of UTC and whose messages have no previous_message linked.
C23_RoundTripOfWholeSeconds ==
    \A path \in DOMAIN folder :
        LET packet == packets[path[1]][1]
        IN  (/\ folder[path].body = Pristine(path)
             /\ packet.header.packet_timestamp.us = 0
             /\ packet.header.packet_timestamp.tz = "utc"
             /\ \A j \in DOMAIN packet.messages : packet.messages[j].previous_message = 0)
            => LET out == Packet_from_bytes(folder[path].body,
                                            calls[path[1]].keys[1].secret_key)
               IN  /\ ~out.raised
                   /\ out.packet = packet
                   /\ out.hash_key = calls[path[1]].keys[1].hash_key

\* C23 witness: a packet with out-of-order ids, a NACK and three messages
\* has been encoded and decodes to itself.
C23_Witness ==
    \E path \in DOMAIN folder :
        LET packet == packets[path[1]][1]
            out == Packet_from_bytes(folder[path].body, calls[path[1]].keys[1].secret_key)
        IN  /\ folder[path].body = Pristine(path)
            /\ Len(packet.messages) = 3
            /\ Len(packet.control.sender_clock_out_of_order) = 2
            /\ Len(packet.control.nack_ids) = 1
            /\ ~out.raised
            /\ out.packet = packet

---------------------------------------------------------------------------
(* Layer 0 (SpecFile): the BinaryWriter of one Server writes a file while  *)
(* the BinaryReader of the other probes it.  now is also time.monotonic(). *)
(* A reader carries, besides its fields, the history of its probes: their  *)
(* number, the last result, the size the previous probe saw and the time   *)
(* of the last probe that saw the file larger than the probe before it     *)
(* (probed, grew_at), and the largest size any probe saw and the time of   *)
(* the last probe that saw the file larger than every probe before it      *)
(* (largest, rose_at).  Before the first probe the sizes are 0 and the     *)
(* times are that of the reader's creation.                                *)

DELAY_ASSUME_WRITE_FINISHED_UNSUCCESSFULLY == 1

MaxBody == 2

MaxFileTime == 3

MaxProbes == 4

\* path.stat().st_size
Size(file) == file.prefix + Len(file.body)

\* the file open(path, 'wb') leaves: no byte
EmptyFile == [prefix |-> 0, sentinel |-> 0, body |-> <<>>]

\* BinaryReader(path) at current_time: __post_init__ reads the 4 bytes of the
\* size sentinel
BinaryReader(file, current_time) ==
    [_expected_total_size |-> file.sentinel,
     _prev_time_monotonic |-> current_time,
     _prev_size_bytes |-> 0,
     probes |-> 0, ready |-> FALSE, probed |-> 0, grew_at |-> current_time,
     largest |-> 0, rose_at |-> current_time, closed |-> FALSE]

is_ready_to_read_AtDelay(self, current_time, current_size) ==
    IF self._expected_total_size > 0 /\ current_size >= self._expected_total_size
    THEN [ready |-> TRUE, self |-> self]
    ELSE IF current_size > self._prev_size_bytes
    THEN [ready |-> FALSE,
          self |-> [self EXCEPT !._prev_time_monotonic = current_time,
                                !._prev_size_bytes = current_size]]
    ELSE [ready |-> self._prev_time_monotonic + DELAY_ASSUME_WRITE_FINISHED_UNSUCCESSFULLY
                        <= current_time,
          self |-> self]

\* BinaryReader.is_ready_to_read with time.monotonic() = current_time and
\* path.stat().st_size = current_size
is_ready_to_read(self, current_time, current_size) ==
    IF self._expected_total_size > 0 /\ current_size >= self._expected_total_size
    THEN [ready |-> TRUE, self |-> self]
    ELSE IF current_size > self._prev_size_bytes
    THEN [ready |-> FALSE,
          self |-> [self EXCEPT !._prev_time_monotonic = current_time,
                                !._prev_size_bytes = current_size]]
    ELSE [ready |-> self._prev_time_monotonic + DELAY_ASSUME_WRITE_FINISHED_UNSUCCESSFULLY
                        < current_time,
          self |-> self]

\* data[:n] of the bytes of file, then data.append(0); a sentinel under 2^8
\* has three zero bytes first
Truncated(file, n) ==
    IF n < 3 THEN [prefix |-> n + 1, sentinel |-> 0, body |-> <<>>]
    ELSE IF n = 3 THEN [prefix |-> 4, sentinel |-> 0, body |-> <<>>]
    ELSE [file EXCEPT !.body = Append(SubSeq(@, 1, n - 4), 0)]

\* the byte strings corrupt_my_file may write back for the bytes it read:
\* truncated or not, then with the last byte of the sentinel rotten or not
corrupt_my_file(file) ==
    LET cut == {file} \cup {Truncated(file, n) : n \in 0..Size(file)}
    IN  cut \cup {[data EXCEPT !.sentinel = file.sentinel + 1] : data \in {d \in cut : d.prefix = 4}}

\* the path of the packet file the Server u writes for its peer
OutPath(u) == <<u, Other(u), 1>>

\* u: f = BinaryWriter(path), which writes b'\0\0\0\0'
BinaryWriterOpen(u) ==
    /\ servers[u].f.pc = "none"
    /\ OutPath(u) \notin DOMAIN folder
    /\ folder' = (OutPath(u) :> [prefix |-> 4, sentinel |-> 0, body |-> <<>>]) @@ folder
    /\ servers' = [servers EXCEPT ![u].f = [pc |-> "open"]]
    /\ UNCHANGED <<messengers, packets, now, threads, _outbox_lock, calls>>

\* u: one more byte of the body reaches the file
BinaryWriterWrite(u) ==
    /\ servers[u].f.pc = "open"
    /\ Len(folder[OutPath(u)].body) < MaxBody
    /\ folder' = [folder EXCEPT ![OutPath(u)].body = Append(@, 1)]
    /\ UNCHANGED <<messengers, packets, now, threads, _outbox_lock, calls, servers>>

\* u: f.close() up to _raw_writer.close(): the size is written over the
\* sentinel; corrupt_my_file then reads the file and chooses what to write
BinaryWriterClose(u) ==
    /\ servers[u].f.pc = "open"
    /\ folder' = [folder EXCEPT ![OutPath(u)].sentinel = Size(folder[OutPath(u)])]
    /\ \E data \in corrupt_my_file(folder'[OutPath(u)]) :
          servers' = [servers EXCEPT ![u].f = [pc |-> "corrupt", data |-> data]]
    /\ UNCHANGED <<messengers, packets, now, threads, _outbox_lock, calls>>

\* u: the end of f.close(), corrupt_my_file: path.open('wb') empties the
\* file, f.write(data) fills it again
CorruptMyFile(u) ==
    /\ \/ /\ servers[u].f.pc = "corrupt"
          /\ folder' = [folder EXCEPT ![OutPath(u)] = EmptyFile]
          /\ servers' = [servers EXCEPT ![u].f.pc = "rewrite"]
       \/ /\ servers[u].f.pc = "rewrite"
          /\ folder' = [folder EXCEPT ![OutPath(u)] = servers[u].f.data]
          /\ servers' = [servers EXCEPT ![u].f = [pc |-> "closed"]]
    /\ UNCHANGED <<messengers, packets, now, threads, _outbox_lock, calls>>

\* Server._find_input_files of u on the file at path, which it has not
\* seen: a file under 4 bytes is NACKed, any other gets a BinaryReader
FindInputFile(u, path) ==
    /\ path \in DOMAIN folder
    /\ path \notin DOMAIN servers[u]._current_files
    /\ path[2] = u
    /\ IF Size(folder[path]) < 4
       THEN /\ messengers' = [messengers EXCEPT ![u] = find_short_file(@, path[3])]
            /\ UNCHANGED servers
       ELSE /\ servers' = [servers EXCEPT ![u]._current_files =
                              (path :> BinaryReader(folder[path], now)) @@ @]
            /\ UNCHANGED messengers
    /\ UNCHANGED <<packets, now, threads, _outbox_lock, calls, folder>>

\* Server._try_read_input_files of u up to open_file.is_ready_to_read() on
\* a file that was not ready
Probe(u, path) ==
    /\ path \in DOMAIN servers[u]._current_files
    /\ path \in DOMAIN folder
    /\ ~servers[u]._current_files[path].ready
    /\ servers[u]._current_files[path].probes < MaxProbes
    /\ LET open_file == servers[u]._current_files[path]
           current_size == Size(folder[path])
           out == is_ready_to_read(open_file, now, current_size)
       IN  servers' = [servers EXCEPT ![u]._current_files[path] =
                          [out.self EXCEPT !.probes = @ + 1,
                                           !.ready = out.ready,
                                           !.probed = current_size,
                                           !.grew_at = IF current_size > open_file.probed
                                                       THEN now ELSE @,
                                           !.largest = IF current_size > @ THEN current_size ELSE @,
                                           !.rose_at = IF current_size > open_file.largest
                                                       THEN now ELSE @]]
    /\ UNCHANGED <<messengers, packets, now, threads, _outbox_lock, calls, folder>>

\* time.monotonic() moves on by a second
FileTick ==
    /\ now < MaxFileTime
    /\ now' = now + 1
    /\ UNCHANGED <<messengers, packets, threads, _outbox_lock, calls, folder, servers>>

NextFile ==
    \/ BinaryWriterOpen("A")
    \/ BinaryWriterWrite("A")
    \/ BinaryWriterClose("A")
    \/ CorruptMyFile("A")
    \/ FindInputFile("B", OutPath("A"))
    \/ Probe("B", OutPath("A"))
    \/ FileTick

SpecFile == Init /\ [][NextFile]_vars

\* the BinaryReaders of files that still exist
Readers == {<<u, path>> \in UUIDS \X DOMAIN folder : path \in DOMAIN servers[u]._current_files}

\* those no probe has found ready: the ones the Server probes
OpenFiles == {o \in Readers : ~servers[o[1]]._current_files[o[2]].ready}

C25_SentinelCompleteness ==
    \A u \in UUIDS :
        OutPath(u) \in DOMAIN folder =>
            LET file == folder[OutPath(u)]
            IN  /\ servers[u].f.pc = "open" => file.prefix = 4 /\ file.sentinel = 0
                /\ file.prefix = 4 /\ file.sentinel # 0 => Size(file) >= file.sentinel

---------------------------------------------------------------------------
(* The controller (SpecCtl): files arrive in the input folder of Server B  *)
(* and B calls run_once again and again.  round is where B is in run_once: *)
(* the loop it is in (phase), the paths that loop has still to visit       *)
(* (todo) and, between open_file.close and nack_ids.add, the path (at).    *)
(* raised is the exception that ended the last run_once that raised.  A    *)
(* path <<sender, recipient, packet id>> is a file name that has two '--'  *)
(* and no leading dot.                                                     *)

MaxCtlFiles == 2

MaxCtlPackets == 2

\* a uuid no Messenger of the Server is configured for, and a string that
\* is no uuid
Unknown == "C"

Malformed == "zzz"

\* names for B from its peer, from the two others, and one for A
CtlPaths == {<<sender, "B", 1>> : sender \in {"A", Unknown, Malformed}} \cup {<<"A", "A", 1>>}

\* files of 2 bytes, of 5 bytes with the sentinel 5, and of 5 bytes with the
\* sentinel 0
CtlFiles ==
    {[prefix |-> 2, sentinel |-> 0, body |-> <<>>],
     [prefix |-> 4, sentinel |-> 5, body |-> <<0>>],
     [prefix |-> 4, sentinel |-> 0, body |-> <<0>>]}

\* self.messengers[UUID(_sender)] in the Server u: the exception it raises,
\* "" when it raises none
MessengerOf(u, _sender) ==
    IF _sender = Malformed THEN "ValueError"
    ELSE IF _sender # Other(u) THEN "KeyError"
    ELSE ""

\* the file arrives in the input folder
DropFile(path, file) ==
    /\ Cardinality(DOMAIN folder) < MaxCtlFiles
    /\ path \notin DOMAIN folder
    /\ folder' = (path :> file) @@ folder
    /\ UNCHANGED <<messengers, packets, now, threads, _outbox_lock, calls, servers>>

\* u.run_once() is called: _find_input_files starts on the files there are
StartRunOnce(u) ==
    /\ servers[u].round.phase = "idle"
    /\ servers' = [servers EXCEPT ![u].round = [phase |-> "find", todo |-> DOMAIN folder, at |-> <<>>]]
    /\ UNCHANGED <<messengers, packets, now, threads, _outbox_lock, calls, folder>>

\* run_once of u ends with the exception error, raised in op
Raise(u, op, error) ==
    [servers EXCEPT ![u].round = [phase |-> "idle", todo |-> {}, at |-> <<>>],
                    ![u].raised = [op |-> op, error |-> error]]

\* the body of the loop of _find_input_files for path
FindStep(u, path) ==
    /\ servers[u].round.phase = "find"
    /\ path \in servers[u].round.todo
    /\ LET visited == [servers EXCEPT ![u].round.todo = @ \ {path}]
       IN  IF path \in DOMAIN servers[u]._current_files \/ path[2] # u
           THEN servers' = visited /\ UNCHANGED messengers
           ELSE IF Size(folder[path]) < 4
           THEN IF MessengerOf(u, path[1]) # ""
                THEN /\ servers' = Raise(u, "_find_input_files", MessengerOf(u, path[1]))
                     /\ UNCHANGED messengers
                ELSE /\ messengers' = [messengers EXCEPT ![u] = find_short_file(@, path[3])]
                     /\ servers' = visited
           ELSE /\ servers' = [visited EXCEPT ![u]._current_files =
                                  (path :> BinaryReader(folder[path], now)) @@ @]
                /\ UNCHANGED messengers
    /\ UNCHANGED <<packets, now, threads, _outbox_lock, calls, folder>>

\* the loop of _find_input_files or of _try_read_input_files is over: the
\* next one starts, _try_read_input_files having pruned the closed files
NextPhase(u) ==
    /\ servers[u].round.todo = {}
    /\ \/ /\ servers[u].round.phase = "find"
          /\ servers' = [servers EXCEPT ![u].round.phase = "read",
                                        ![u].round.todo = DOMAIN servers[u]._current_files]
       \/ /\ servers[u].round.phase = "read"
          /\ LET open == {path \in DOMAIN servers[u]._current_files :
                             ~servers[u]._current_files[path].closed}
             IN  servers' = [servers EXCEPT ![u].round.phase = "write",
                                           ![u]._current_files = [path \in open |-> @[path]]]
    /\ UNCHANGED <<messengers, packets, now, threads, _outbox_lock, calls, folder>>

\* the body of the loop of _try_read_input_files for path, up to
\* open_file.close(delete=delete_error_files) in the except branch, which
\* Packet.from_file(open_file), called without its secret_key, always leads
\* to
ReadStep(u, path) ==
    /\ servers[u].round.phase = "read"
    /\ path \in servers[u].round.todo
    /\ LET open_file == servers[u]._current_files[path]
           visited == [servers EXCEPT ![u].round.todo = @ \ {path}]
       IN  IF path \notin DOMAIN folder
           THEN servers' = Raise(u, "_try_read_input_files", "FileNotFoundError") /\ UNCHANGED folder
           ELSE LET out == is_ready_to_read(open_file, now, Size(folder[path]))
                IN  IF ~out.ready
                    THEN /\ servers' = [visited EXCEPT ![u]._current_files[path] = out.self]
                         /\ UNCHANGED folder
                    ELSE IF MessengerOf(u, path[1]) # ""
                    THEN /\ servers' = Raise(u, "_try_read_input_files", MessengerOf(u, path[1]))
                         /\ UNCHANGED folder
                    ELSE /\ folder' = [other \in DOMAIN folder \ {path} |-> folder[other]]
                         /\ servers' = [servers EXCEPT ![u]._current_files[path].closed = TRUE,
                                                       ![u].round.at = path]
    /\ UNCHANGED <<messengers, packets, now, threads, _outbox_lock, calls>>

\* the end of the except branch: messenger.nack_ids.add(_packet_id)
ReadNack(u) ==
    /\ servers[u].round.phase = "read"
    /\ servers[u].round.at # <<>>
    /\ messengers' = [messengers EXCEPT ![u].nack_ids = @ \cup {StrId(servers[u].round.at[3])}]
    /\ servers' = [servers EXCEPT ![u].round.todo = @ \ {servers[u].round.at},
                                  ![u].round.at = <<>>]
    /\ UNCHANGED <<packets, now, threads, _outbox_lock, calls, folder>>

\* _write_output_files of u: messenger.create_packet(), BinaryWriter(...),
\* then packet.to_file(f), called without its secret_key, raises.  Past
\* MaxCtlPackets packets the counters of the Messenger are followed no
\* further.
WriteStep(u) ==
    /\ servers[u].round.phase = "write"
    /\ messengers' = IF messengers[u].num_sent_packets < MaxCtlPackets
                     THEN [messengers EXCEPT ![u] = create_packet(@, now, RETRANSMISSION_TIMEOUT).self]
                     ELSE messengers
    /\ servers' = Raise(u, "_write_output_files", "TypeError")
    /\ UNCHANGED <<packets, now, threads, _outbox_lock, calls, folder>>

\* the steps of the Server u
ServerStep(u) ==
    \/ StartRunOnce(u)
    \/ \E path \in CtlPaths : FindStep(u, path)
    \/ NextPhase(u)
    \/ \E path \in CtlPaths : ReadStep(u, path)
    \/ ReadNack(u)
    \/ WriteStep(u)

NextCtl ==
    \/ \E path \in CtlPaths, file \in CtlFiles : DropFile(path, file)
    \/ ServerStep("B")
    \/ FileTick

SpecCtl == Init /\ [][NextCtl]_vars

\* run_once is called again whenever it has returned or raised, and runs on
SpecCtlFair == SpecCtl /\ WF_vars(ServerStep("B"))

\* C26: whenever a file leaves the input folder, the id in its name is in
\* the nack_ids of the Messenger of the Server that unlinks it
C26_NackBeforeUnlink ==
    [][\A path \in DOMAIN folder :
          path \notin DOMAIN folder' => StrId(path[3]) \in messengers[path[2]].nack_ids]_vars

\* C27: a file under 4 bytes that a configured sender addressed to the
\* Server is eventually deleted, unless a run_once raises on an input file
C27_ShortFileDeleted ==
    \A path \in {<<"A", "B", 1>>} :
        [](path \in DOMAIN folder /\ Size(folder[path]) < 4
              => <>(\/ path \notin DOMAIN folder
                    \/ servers["B"].raised.op \in {"_find_input_files", "_try_read_input_files"}))

\* C28: no run_once raises in _find_input_files or _try_read_input_files
C28_InputNeverRaises ==
    \A u \in UUIDS : servers[u].raised.op \notin {"_find_input_files", "_try_read_input_files"}

====
